---- MODULE Spec2Model ----
(***************************************************************************)
(* Coldstar air-gapped cold wallet: the Base/EVM command line (base_cli.py, *)
(* src/evm_wallet.py, src/evm_transaction.py) and the Solana command line  *)
(* (main.py, src/wallet.py, src/transaction.py, src/backup.py) as state    *)
(* machines over the wallet managers' fields and the files they write.     *)
(***************************************************************************)
EXTENDS Integers, Sequences, FiniteSets, TLC

\* ------------------------------------------------------------------ bounds
\* int(time.time()) takes the values 0..MaxTime
MaxTime == 1

\* ------------------------------------------------------------ input domains
\* Python None for string-valued fields
None == "None"
\* secp256k1 / Ed25519 private keys
Keys == {"k1", "k2"}
\* the public address (EVM) or public key (Solana) derived from a private key
AddressOf(k) == IF k = "k1" THEN "a1" ELSE "a2"
\* what get_password_input returns: a password or the empty string
Passwords == {"p1", "p2"}
PasswordInputs == Passwords \cup {""}
\* the password typed when a wallet is created, and its confirmation
NewPasswordInputs == {"p1", ""}
ConfirmInputs == {"p1", "p2", ""}
\* wallet directories the user can type
Dirs == {"d1", "d2"}
\* the directories wallets are created in (d2 stays without a wallet)
CreateDirs == {"d1"}
\* what time.time() truncates to
Times == 0..MaxTime

\* ----------------------------------------------------- EVM: pure functions
\* the absent container / transaction / signature (Python None)
NoContainer == [fmt |-> "none"]
NoTx == [shape |-> "none"]
NoSig == [shape |-> "none"]

\* EVMWalletManager.validate_address on the sample recipients:
\* "0xR1" stands for 0x + 40 hex digits, "bad" for anything else
Recipients == {"0xR1", "bad"}
validate_address(a) == a = "0xR1"

\* RPC answers; -1 stands for None (request failed)
RpcNone == 0 - 1
NonceAnswers == {RpcNone, 0}
BaseFeeAnswers == {RpcNone, 10}
PriorityFeeAnswers == {RpcNone, 1}
\* get_float_input for the amount, in whole units; 0 is rejected by the CLI
AmountInputs == {0, 1}

\* ------------------------------------------------ text and bytes, as Python
\* A str is a sequence of one-character strings, bytes a sequence of 0..255.
HexChars == <<"0", "1", "2", "3", "4", "5", "6", "7", "8", "9",
              "a", "b", "c", "d", "e", "f">>
UpperHexChars == <<"A", "B", "C", "D", "E", "F">>
IsHexChar(c) ==
    \/ \E i \in DOMAIN HexChars : HexChars[i] = c
    \/ \E i \in DOMAIN UpperHexChars : UpperHexChars[i] = c
\* str.lower on one character
LowerChar(c) ==
    IF \E i \in DOMAIN UpperHexChars : UpperHexChars[i] = c
      THEN HexChars[10 + (CHOOSE i \in DOMAIN UpperHexChars :
                             UpperHexChars[i] = c)]
    ELSE c
lower(str) == [i \in DOMAIN str |-> LowerChar(str[i])]
\* value of a hexadecimal digit
HexValue(c) == (CHOOSE i \in DOMAIN HexChars : HexChars[i] = LowerChar(c)) - 1
\* str[n:]
DropChars(str, n) == SubSeq(str, n + 1, Len(str))
Zeros(n) == [i \in 1..n |-> "0"]
\* str.zfill(width): zeros on the left, after a leading sign
zfill(str, width) ==
    IF Len(str) >= width THEN str
    ELSE IF Len(str) > 0 /\ str[1] \in {"+", "-"}
      THEN <<str[1]>> \o Zeros(width - Len(str)) \o DropChars(str, 1)
    ELSE Zeros(width - Len(str)) \o str
\* the hexadecimal digits of n >= 0, without prefix
RECURSIVE HexDigitsOf(_)
HexDigitsOf(n) ==
    IF n < 16 THEN <<HexChars[n + 1]>>
    ELSE HexDigitsOf(n \div 16) \o <<HexChars[(n % 16) + 1]>>
\* hex(n)
hex(n) ==
    IF n < 0 THEN <<"-", "0", "x">> \o HexDigitsOf(0 - n)
    ELSE <<"0", "x">> \o HexDigitsOf(n)
\* bytes.fromhex raises ValueError: odd length or a character that is no digit
FromHexRaises(str) ==
    \/ Len(str) % 2 = 1
    \/ \E i \in DOMAIN str : ~IsHexChar(str[i])
\* bytes.fromhex on text it accepts
fromhex(str) ==
    [i \in 1..(Len(str) \div 2) |->
        16 * HexValue(str[2 * i - 1]) + HexValue(str[2 * i])]
\* bytes.hex
RECURSIVE bytes_hex(_)
bytes_hex(b) ==
    IF b = <<>> THEN <<>>
    ELSE <<HexChars[(Head(b) \div 16) + 1], HexChars[(Head(b) % 16) + 1]>>
         \o bytes_hex(Tail(b))

\* BaseCLI.create_unsigned_tx and quick_send: max_fee from the two RPC answers
max_fee_per_gas_no_tip(base_fee, priority_fee) == base_fee * 2
max_fee_per_gas(base_fee, priority_fee) == base_fee * 2 + priority_fee

\* config.BASE_CHAIN_ID
BASE_CHAIN_ID == 8453
\* gas_limit default of create_eth_transfer
EthGasLimit == 21000

\* EVMTransactionManager.create_eth_transfer: the EIP-1559 dict
\* (value in whole coins; data is b"")
create_eth_transfer(to, amount, nonce, max_fee, tip) ==
    [shape |-> "tx", type |-> 2, chainId |-> BASE_CHAIN_ID, to |-> to,
     value |-> amount, gas |-> EthGasLimit, nonce |-> nonce,
     maxFeePerGas |-> max_fee, maxPriorityFeePerGas |-> tip, data |-> <<>>]

\* the fields of a transaction dict that hold an int
IntFields == {"type", "chainId", "nonce", "value", "gas", "maxFeePerGas",
              "maxPriorityFeePerGas"}

\* EVMTransactionManager.serialize_unsigned_tx: the JSON object written,
\* each member with its JSON kind; bytes become "0x" + hex text
serialize_unsigned_tx_bare_hex(tx) ==
    [k \in DOMAIN tx |->
        IF k = "data" THEN [json |-> "string", val |-> bytes_hex(tx[k])]
        ELSE IF k \in IntFields THEN [json |-> "number", val |-> tx[k]]
        ELSE [json |-> "string", val |-> tx[k]]]

serialize_unsigned_tx(tx) ==
    [k \in DOMAIN tx |->
        IF k = "data"
          THEN [json |-> "string", val |-> <<"0", "x">> \o bytes_hex(tx[k])]
        ELSE IF k \in IntFields THEN [json |-> "number", val |-> tx[k]]
        ELSE [json |-> "string", val |-> tx[k]]]

\* the text of a JSON string starts with 0x
StartsWith0x(str) == Len(str) >= 2 /\ str[1] = "0" /\ str[2] = "x"

\* EVMTransactionManager.deserialize_unsigned_tx: the dict, or NoTx (None)
\* when bytes.fromhex raises
deserialize_unsigned_tx(doc) ==
    IF "data" \in DOMAIN doc /\ doc["data"].json = "string"
       /\ StartsWith0x(doc["data"].val)
       /\ FromHexRaises(DropChars(doc["data"].val, 2))
      THEN NoTx
    ELSE [k \in DOMAIN doc |->
            IF k = "data" /\ doc[k].json = "string"
              THEN IF StartsWith0x(doc[k].val)
                     THEN fromhex(DropChars(doc[k].val, 2))
                   ELSE <<>>
            ELSE doc[k].val]

\* a dict read from a transaction file that lacks the fields of a transaction
MalformedTx == [shape |-> "junk"]

\* Account.sign_transaction(tx, key) raises on a dict that is no transaction
SignRaises(tx) == tx.shape # "tx"
\* the raw signed transaction bytes
RawSigned(tx, key) == [shape |-> "sig", tx |-> tx, by |-> key]

\* The encrypted container save_keypair writes: Rust format (ciphertext,
\* nonce, salt) with the Rust signer, eth-account keystore (crypto) without.
\* Both carry an address field.
MakeContainer(rust, key, password) ==
    [fmt |-> IF rust THEN "rust" ELSE "keystore", key |-> key,
     pw |-> password, address |-> AddressOf(key)]

\* EVMWalletManager.decrypt_private_key: the key, or None when the password
\* is wrong (AEAD tag / keystore MAC mismatch, caught) or the format unknown
decrypt_private_key(rust, container, password) ==
    IF container.fmt = "rust" /\ rust
      THEN IF container.pw = password THEN container.key ELSE None
    ELSE IF container.fmt = "keystore"
      THEN IF container.pw = password THEN container.key ELSE None
    ELSE None

\* ------------------------------------------------------------- variables
VARIABLES
    \* --- Base CLI process (base_cli.py)
    rust_signer,        \* EVMWalletManager.rust_signer is set (Rust signer importable)
    disk_container,     \* <dir>/evm_keypair.json, NoContainer when absent
    disk_address,       \* <dir>/evm_address.txt, None when absent
    evm_files,          \* transaction files: <<dir, kind, n>> -> content
    w_account,          \* EVMWalletManager.account (the plaintext key) or None
    w_dir,              \* EVMWalletManager.wallet_dir (keypair_path, address_path)
    w_container,        \* EVMWalletManager.encrypted_container
    cli_address,        \* BaseCLI.address
    cli_wallet_path,    \* BaseCLI.wallet_path
    tm_unsigned_tx,     \* EVMTransactionManager.unsigned_tx
    tm_signed_tx_bytes, \* EVMTransactionManager.signed_tx_bytes
    now,                \* int(time.time())
    pc,                 \* position inside sign_transaction_offline / quick_send
    caller,             \* which handler called sign_transaction_secure
    l_tx,               \* local tx
    l_container,        \* local container
    l_password,         \* local password
    private_key,        \* local private_key of sign_transaction_secure
    signed,             \* value returned by sign_transaction_secure
    trace,              \* steps of the current signing run, in order
    pre,                \* signed_tx_bytes and files when the run began
    evm_online          \* only load / build / broadcast operations so far

evm_vars == <<rust_signer, disk_container, disk_address, evm_files, w_account,
              w_dir, w_container, cli_address, cli_wallet_path, tm_unsigned_tx,
              tm_signed_tx_bytes, now, pc, caller, l_tx, l_container,
              l_password, private_key, signed, trace, pre, evm_online>>

\* --- Solana CLI process (main.py) with WalletManager, TransactionManager,
\* WalletBackup
VARIABLES
    has_nacl,            \* WalletBackup.encryption_available (HAS_NACL)
    usb_mounted,         \* the USB file system is mounted
    usb_mount_point,     \* USBManager.mount_point
    usb_keypair,         \* <mount>/wallet/keypair.json: the key, or None
    usb_pubkey,          \* <mount>/wallet/pubkey.txt, or None
    usb_old,             \* <mount>/wallet/keypair_old_<t>.json: t -> key
    inbox,               \* <mount>/inbox: name -> file content
    outbox,              \* <mount>/outbox: name -> file content
    backups,             \* <mount>/backups: name -> file content
    wm_keypair,          \* WalletManager.keypair: the key held, or None
    wm_origin,           \* how wm_keypair came to be: generated or loaded
    wm_dir,              \* WalletManager.wallet_dir (keypair_path, pubkey_path)
    current_public_key,  \* SolanaColdWalletCLI.current_public_key
    usb_is_cold_wallet,  \* SolanaColdWalletCLI.usb_is_cold_wallet
    current_usb_device,  \* SolanaColdWalletCLI.current_usb_device
    unsigned_tx,         \* TransactionManager.unsigned_tx
    signed_tx,           \* TransactionManager.signed_tx
    sol_now,             \* int(time.time())
    last,                \* the handler that ran last and how it ended
    sol_online           \* only mount / build / broadcast operations so far

sol_vars == <<has_nacl, usb_mounted, usb_mount_point, usb_keypair, usb_pubkey,
              usb_old, inbox, outbox, backups, wm_keypair, wm_origin, wm_dir,
              current_public_key, usb_is_cold_wallet, current_usb_device,
              unsigned_tx, signed_tx, sol_now, last, sol_online>>

\* --- one call of a library function, made directly on fresh objects
VARIABLES
    u_call,     \* the function called and its arguments
    u_before,   \* the fields and files the call can touch, before it
    u_after,    \* the same fields and files when the call is over
    u_ret       \* what the call returned

unit_vars == <<u_call, u_before, u_after, u_ret>>

vars == <<evm_vars, sol_vars, unit_vars>>

\* no call made yet
NoCall == [fn |-> "none"]
UnitFields ==
    /\ u_call = NoCall
    /\ u_before = NoCall
    /\ u_after = NoCall
    /\ u_ret = NoCall

\* the outbox file names base_cli.py builds from int(time.time())
UnsignedPath(dir, t) == <<dir, "unsigned", t>>
SignedPath(dir, t) == <<dir, "signed", t>>
\* a file the user copied into the wallet directory
\* the one file copied in from the other device
InboxPath(dir) == <<dir, "in", 0>>
\* a path the user types that names no file
MissingPath == <<"d1", "missing", 0>>

\* f with path p (over)written by content c: open(p, 'w'); json.dump(c)
WriteFile(f, p, c) == [q \in DOMAIN f \cup {p} |-> IF q = p THEN c ELSE f[q]]

UnsignedFile(tx) ==
    [type |-> "unsigned_evm_transaction", data |-> serialize_unsigned_tx(tx)]
SignedFile(sig) == [type |-> "signed_evm_transaction", data |-> sig]

EvmFields(rust) ==
    /\ rust_signer = rust
    /\ disk_container = [d \in Dirs |-> NoContainer]
    /\ disk_address = [d \in Dirs |-> None]
    /\ evm_files = <<>>
    /\ w_account = None
    /\ w_dir = None
    /\ w_container = NoContainer
    /\ cli_address = None
    /\ cli_wallet_path = None
    /\ tm_unsigned_tx = NoTx
    /\ tm_signed_tx_bytes = NoSig
    /\ now = 0
    /\ pc = "menu"
    /\ caller = None
    /\ l_tx = NoTx
    /\ l_container = NoContainer
    /\ l_password = ""
    /\ private_key = None
    /\ signed = NoSig
    /\ trace = <<>>
    /\ pre = [signed |-> NoSig, files |-> <<>>]
    /\ evm_online = TRUE

\* ------------------------------------------------- EVM wallet manager
\* where an I/O error strikes inside save_keypair
IoFaults == {"none", "container", "address"}

\* EVMWalletManager.save_keypair for account `key` into directory dir:
\* the files and the account field it leaves, and what it returns
save_keypair(dir, key, password, confirm, io) ==
    IF password # confirm \/ password = "" \/ io = "container"
      THEN [ok |-> FALSE, container |-> disk_container[dir],
            address |-> disk_address[dir], account |-> key]
    ELSE IF io = "address"
      THEN [ok |-> FALSE,
            container |-> MakeContainer(rust_signer, key, password),
            address |-> disk_address[dir], account |-> key]
    ELSE [ok |-> TRUE,
          container |-> MakeContainer(rust_signer, key, password),
          address |-> AddressOf(key), account |-> None]

\* EVMWalletManager.load_encrypted_container for directory dir: the data, or
\* NoContainer (failure: no file, unknown format)
load_encrypted_container(dir) ==
    IF dir = None THEN NoContainer
    ELSE IF disk_container[dir].fmt \in {"rust", "keystore"}
      THEN disk_container[dir]
    ELSE NoContainer

\* EVMWalletManager.get_address / get_address_from_file with the container
\* just loaded
get_address(account, dir, container) ==
    IF account # None THEN AddressOf(account)
    ELSE IF dir # None /\ disk_address[dir] # None THEN disk_address[dir]
    ELSE IF container # NoContainer THEN container.address
    ELSE None

\* ------------------------------------------------------ Base CLI actions
AtMenu == pc = "menu"

EvmCallUnchanged ==
    UNCHANGED <<pc, caller, l_tx, l_container, l_password, private_key,
                signed, trace, pre>>

\* BaseCLI.create_wallet (offered while no wallet is loaded)
create_wallet ==
    /\ UNCHANGED <<sol_vars, unit_vars>>
    /\ AtMenu /\ cli_address = None
    /\ \E dir \in CreateDirs, key \in Keys, password \in NewPasswordInputs,
          confirm \in ConfirmInputs, io \in IoFaults :
         LET r == save_keypair(dir, key, password, confirm, io) IN
           /\ w_dir' = dir
           /\ w_account' = r.account
           /\ disk_container' = [disk_container EXCEPT ![dir] = r.container]
           /\ disk_address' = [disk_address EXCEPT ![dir] = r.address]
           /\ cli_address' = IF r.ok THEN AddressOf(key) ELSE cli_address
           /\ cli_wallet_path' = IF r.ok THEN dir ELSE cli_wallet_path
    /\ evm_online' = FALSE
    /\ UNCHANGED <<rust_signer, evm_files, w_container, tm_unsigned_tx,
                   tm_signed_tx_bytes, now>>
    /\ EvmCallUnchanged

\* BaseCLI.load_wallet (offered while no wallet is loaded)
load_wallet ==
    /\ UNCHANGED <<sol_vars, unit_vars>>
    /\ AtMenu /\ cli_address = None
    /\ \E dir \in Dirs :
         LET container == load_encrypted_container(dir)
             address == get_address(w_account, dir, container) IN
           /\ w_dir' = dir
           /\ w_container' = IF container # NoContainer THEN container
                             ELSE w_container
           /\ IF container # NoContainer /\ address # None
                THEN cli_address' = address /\ cli_wallet_path' = dir
                ELSE UNCHANGED <<cli_address, cli_wallet_path>>
    /\ UNCHANGED <<rust_signer, disk_container, disk_address, evm_files,
                   w_account, tm_unsigned_tx, tm_signed_tx_bytes, now,
                   evm_online>>
    /\ EvmCallUnchanged

\* BaseCLI.unload_wallet -> EVMWalletManager.clear_memory
unload_wallet ==
    /\ UNCHANGED <<sol_vars, unit_vars>>
    /\ AtMenu /\ cli_address # None
    /\ w_account' = None
    /\ w_container' = NoContainer
    /\ cli_address' = None
    /\ cli_wallet_path' = None
    /\ UNCHANGED <<rust_signer, disk_container, disk_address, evm_files,
                   w_dir, tm_unsigned_tx, tm_signed_tx_bytes, now, evm_online>>
    /\ EvmCallUnchanged

\* BaseCLI.create_unsigned_tx: validate, fetch chain parameters, build,
\* save to the outbox
create_unsigned_tx ==
    /\ UNCHANGED <<sol_vars, unit_vars>>
    /\ AtMenu /\ cli_address # None
    /\ \E to \in Recipients, amount \in AmountInputs, nonce \in NonceAnswers,
          base_fee \in BaseFeeAnswers, priority_fee \in PriorityFeeAnswers :
         IF /\ validate_address(to) /\ amount > 0
            /\ nonce # RpcNone /\ base_fee # RpcNone /\ priority_fee # RpcNone
           THEN LET tx == create_eth_transfer(to, amount, nonce,
                              max_fee_per_gas(base_fee, priority_fee), priority_fee) IN
                  /\ tm_unsigned_tx' = tx
                  /\ evm_files' = WriteFile(evm_files,
                         UnsignedPath(cli_wallet_path, now), UnsignedFile(tx))
           ELSE UNCHANGED <<tm_unsigned_tx, evm_files>>
    /\ UNCHANGED <<rust_signer, disk_container, disk_address, w_account,
                   w_dir, w_container, cli_address, cli_wallet_path,
                   tm_signed_tx_bytes, now, evm_online>>
    /\ EvmCallUnchanged

\* the user copies a transaction file from the other device into a wallet
\* directory, under a name no file has yet
receive_file ==
    /\ UNCHANGED <<sol_vars, unit_vars>>
    /\ AtMenu
    /\ \E dir \in CreateDirs, tx \in {MalformedTx} :
         /\ InboxPath(dir) \notin DOMAIN evm_files
         /\ evm_files' = WriteFile(evm_files, InboxPath(dir), UnsignedFile(tx))
    /\ UNCHANGED <<rust_signer, disk_container, disk_address, w_account,
                   w_dir, w_container, cli_address, cli_wallet_path,
                   tm_unsigned_tx, tm_signed_tx_bytes, now, evm_online>>
    /\ EvmCallUnchanged

\* the clock moves on to the next second
tick ==
    /\ UNCHANGED <<sol_vars, unit_vars>>
    /\ AtMenu /\ now < MaxTime
    /\ now' = now + 1
    /\ UNCHANGED <<rust_signer, disk_container, disk_address, evm_files,
                   w_account, w_dir, w_container, cli_address, cli_wallet_path,
                   tm_unsigned_tx, tm_signed_tx_bytes, evm_online>>
    /\ EvmCallUnchanged

\* ------------------------------------------- EVM: offline signing path
\* EVMTransactionManager.load_unsigned_transaction: the transaction of the
\* file, or NoTx (no file, wrong type)
unsigned_file_tx(file) ==
    IF file.type # "unsigned_evm_transaction" THEN NoTx
    ELSE deserialize_unsigned_tx(file.data)

load_unsigned_transaction(path) ==
    IF path \notin DOMAIN evm_files THEN NoTx
    ELSE unsigned_file_tx(evm_files[path])

\* EVMTransactionManager.load_signed_transaction
load_signed_transaction(path) ==
    IF path \notin DOMAIN evm_files THEN NoSig
    ELSE IF evm_files[path].type # "signed_evm_transaction" THEN NoSig
    ELSE evm_files[path].data

EvmDiskUnchanged == UNCHANGED <<rust_signer, disk_container, disk_address>>

\* BaseCLI.sign_transaction_offline up to the password prompt: load the
\* unsigned transaction, load the wallet container
sign_transaction_offline ==
    /\ UNCHANGED <<sol_vars, unit_vars>>
    /\ AtMenu /\ cli_address # None
    /\ evm_online' = FALSE
    /\ pre' = [signed |-> tm_signed_tx_bytes, files |-> evm_files]
    /\ caller' = "offline"
    /\ \E tx_path \in DOMAIN evm_files \cup {MissingPath} :
         LET tx == load_unsigned_transaction(tx_path)
             container == load_encrypted_container(w_dir) IN
           IF cli_wallet_path = None \/ tx = NoTx
             THEN /\ trace' = <<>>
                  /\ pc' = "Done"
                  /\ UNCHANGED <<l_tx, l_container, w_container,
                                 tm_unsigned_tx>>
           ELSE IF container = NoContainer
             THEN /\ tm_unsigned_tx' = tx
                  /\ trace' = <<>>
                  /\ pc' = "Done"
                  /\ UNCHANGED <<l_tx, l_container, w_container>>
           ELSE /\ tm_unsigned_tx' = tx
                /\ w_container' = container
                /\ l_tx' = tx
                /\ l_container' = container
                /\ trace' = <<"ContainerLoaded">>
                /\ pc' = "ContainerLoaded"
    /\ EvmDiskUnchanged
    /\ UNCHANGED <<evm_files, w_account, w_dir, cli_address, cli_wallet_path,
                   tm_signed_tx_bytes, now, l_password, private_key, signed>>

\* BaseCLI.quick_send up to the password prompt: validate, fetch chain
\* parameters, build the transfer, load the wallet container
quick_send ==
    /\ UNCHANGED <<sol_vars, unit_vars>>
    /\ AtMenu /\ cli_address # None
    /\ evm_online' = FALSE
    /\ pre' = [signed |-> tm_signed_tx_bytes, files |-> evm_files]
    /\ caller' = "quick"
    /\ \E to \in Recipients, amount \in AmountInputs, nonce \in NonceAnswers,
          base_fee \in BaseFeeAnswers, priority_fee \in PriorityFeeAnswers :
         LET tx == create_eth_transfer(to, amount, nonce,
                       max_fee_per_gas(base_fee, priority_fee), priority_fee)
             container == load_encrypted_container(w_dir) IN
           IF \/ cli_wallet_path = None \/ ~validate_address(to) \/ amount <= 0
              \/ nonce = RpcNone \/ base_fee = RpcNone \/ priority_fee = RpcNone
             THEN /\ trace' = <<>>
                  /\ pc' = "Done"
                  /\ UNCHANGED <<l_tx, l_container, w_container,
                                 tm_unsigned_tx>>
           ELSE IF container = NoContainer
             THEN /\ tm_unsigned_tx' = tx
                  /\ trace' = <<>>
                  /\ pc' = "Done"
                  /\ UNCHANGED <<l_tx, l_container, w_container>>
           ELSE /\ tm_unsigned_tx' = tx
                /\ w_container' = container
                /\ l_tx' = tx
                /\ l_container' = container
                /\ trace' = <<"ContainerLoaded">>
                /\ pc' = "ContainerLoaded"
    /\ EvmDiskUnchanged
    /\ UNCHANGED <<evm_files, w_account, w_dir, cli_address, cli_wallet_path,
                   tm_signed_tx_bytes, now, l_password, private_key, signed>>

EvmManagersUnchanged ==
    UNCHANGED <<evm_files, w_account, w_dir, w_container, cli_address,
                cli_wallet_path, tm_unsigned_tx, now, evm_online, pre, caller>>

\* get_password_input; an empty password ends the handler
enter_password ==
    /\ UNCHANGED <<sol_vars, unit_vars>>
    /\ pc = "ContainerLoaded"
    /\ \E password \in PasswordInputs :
         IF password = ""
           THEN /\ pc' = "Done"
                /\ UNCHANGED <<l_password, trace>>
           ELSE /\ l_password' = password
                /\ trace' = Append(trace, "PasswordEntered")
                /\ pc' = "PasswordEntered"
    /\ EvmDiskUnchanged /\ EvmManagersUnchanged
    /\ UNCHANGED <<tm_signed_tx_bytes, l_tx, l_container, private_key, signed>>

\* sign_transaction_secure, lines 171-182: decrypt, return None on failure
secure_decrypt ==
    /\ UNCHANGED <<sol_vars, unit_vars>>
    /\ pc = "PasswordEntered"
    /\ LET key == decrypt_private_key(rust_signer, l_container, l_password) IN
         IF key = None
           THEN /\ signed' = NoSig
                /\ trace' = Append(trace, "Failed")
                /\ pc' = "Returned"
                /\ UNCHANGED private_key
           ELSE /\ private_key' = key
                /\ trace' = Append(trace, "KeyDecrypted")
                /\ pc' = "KeyDecrypted"
                /\ UNCHANGED signed
    /\ EvmDiskUnchanged /\ EvmManagersUnchanged
    /\ UNCHANGED <<tm_signed_tx_bytes, l_tx, l_container, l_password>>

\* sign_transaction_secure, lines 188-189 and the except clause 207-209:
\* Account.sign_transaction either raises (the frame is left with return None,
\* lines 192-194 are skipped) or its result is stored in signed_tx_bytes
secure_sign ==
    /\ UNCHANGED <<sol_vars, unit_vars>>
    /\ pc = "KeyDecrypted"
    /\ IF SignRaises(l_tx)
         THEN /\ signed' = NoSig
              /\ private_key' = None
              /\ trace' = trace \o <<"Signing", "Failed">>
              /\ pc' = "Returned"
              /\ UNCHANGED tm_signed_tx_bytes
         ELSE /\ tm_signed_tx_bytes' = RawSigned(l_tx, private_key)
              /\ trace' = trace \o <<"Signing", "signed_tx_bytes set">>
              /\ pc' = "Signing"
              /\ UNCHANGED <<signed, private_key>>
    /\ EvmDiskUnchanged /\ EvmManagersUnchanged
    /\ UNCHANGED <<l_tx, l_container, l_password>>

\* sign_transaction_secure, lines 192-194: del private_key; gc.collect()
secure_wipe ==
    /\ UNCHANGED <<sol_vars, unit_vars>>
    /\ pc = "Signing"
    /\ private_key' = None
    /\ trace' = Append(trace, "KeyWiped")
    /\ pc' = "KeyWiped"
    /\ EvmDiskUnchanged /\ EvmManagersUnchanged
    /\ UNCHANGED <<tm_signed_tx_bytes, l_tx, l_container, l_password, signed>>

\* sign_transaction_secure, line 205: return self.signed_tx_bytes
secure_return ==
    /\ UNCHANGED <<sol_vars, unit_vars>>
    /\ pc = "KeyWiped"
    /\ signed' = tm_signed_tx_bytes
    /\ trace' = Append(trace, "Signed")
    /\ pc' = "Returned"
    /\ EvmDiskUnchanged /\ EvmManagersUnchanged
    /\ UNCHANGED <<tm_signed_tx_bytes, l_tx, l_container, l_password,
                   private_key>>

\* the caller's test of what sign_transaction_secure returned
\* ("if signed:" / "if not signed: return")
caller_accepts_any(result) == TRUE

caller_accepts(result) == result # NoSig

\* the caller after sign_transaction_secure returned: sign_transaction_offline
\* saves the signed file and shows the QR (lines 341-352); quick_send
\* broadcasts (lines 438-448)
after_signing ==
    /\ UNCHANGED <<sol_vars, unit_vars>>
    /\ pc = "Returned"
    /\ IF caller_accepts(signed) /\ caller = "offline"
         THEN /\ evm_files' = WriteFile(evm_files,
                     SignedPath(cli_wallet_path, now), SignedFile(signed))
              /\ trace' = trace \o <<"file saved", "qr shown">>
         ELSE IF caller_accepts(signed)
         THEN /\ \E confirm \in BOOLEAN :
                   trace' = IF confirm THEN Append(trace, "broadcast")
                            ELSE trace
              /\ UNCHANGED evm_files
         ELSE UNCHANGED <<evm_files, trace>>
    /\ pc' = "Done"
    /\ EvmDiskUnchanged
    /\ UNCHANGED <<w_account, w_dir, w_container, cli_address, cli_wallet_path,
                   tm_unsigned_tx, tm_signed_tx_bytes, now, evm_online, pre,
                   caller, l_tx, l_container, l_password, private_key, signed>>

\* the handler returns to run(): its locals are gone
back_to_menu ==
    /\ UNCHANGED <<sol_vars, unit_vars>>
    /\ pc = "Done"
    /\ pc' = "menu"
    /\ caller' = None
    /\ l_tx' = NoTx
    /\ l_container' = NoContainer
    /\ l_password' = ""
    /\ private_key' = None
    /\ signed' = NoSig
    /\ trace' = <<>>
    /\ pre' = [signed |-> NoSig, files |-> <<>>]
    /\ EvmDiskUnchanged
    /\ UNCHANGED <<evm_files, w_account, w_dir, w_container, cli_address,
                   cli_wallet_path, tm_unsigned_tx, tm_signed_tx_bytes, now,
                   evm_online>>

\* BaseCLI.broadcast_signed_tx: load the signed file, send it
broadcast_signed_tx ==
    /\ UNCHANGED <<sol_vars, unit_vars>>
    /\ AtMenu /\ cli_address # None
    /\ \E tx_path \in DOMAIN evm_files \cup {MissingPath} :
         LET signed_bytes == load_signed_transaction(tx_path) IN
           tm_signed_tx_bytes' = IF signed_bytes # NoSig THEN signed_bytes
                                 ELSE tm_signed_tx_bytes
    /\ EvmDiskUnchanged
    /\ UNCHANGED <<evm_files, w_account, w_dir, w_container, cli_address,
                   cli_wallet_path, tm_unsigned_tx, now, evm_online>>
    /\ EvmCallUnchanged

EvmNext ==
    \/ create_wallet
    \/ load_wallet
    \/ unload_wallet
    \/ create_unsigned_tx
    \/ receive_file
    \/ tick
    \/ sign_transaction_offline
    \/ quick_send
    \/ enter_password
    \/ secure_decrypt
    \/ secure_sign
    \/ secure_wipe
    \/ secure_return
    \/ after_signing
    \/ back_to_menu
    \/ broadcast_signed_tx

\* ------------------------------------------- Solana: pure functions
\* the mount point mount_device uses, the device lsblk reports
MountPoint == "/tmp/solana_usb"
Device == "/dev/sdb"

\* recipients typed in; WalletManager.validate_address accepts base58 keys
SolRecipients == {"r1", "bad"}
sol_validate_address(a) == a # "bad"
\* amounts in SOL typed in
SolAmountInputs == {0, 1}

\* TransactionManager.create_transfer_transaction: the unsigned message
\* (None, here NoTx, when Pubkey.from_string raises or the lamports do not
\* fit TransferParams' unsigned 64 bits)
create_transfer_transaction(from, to, amount) ==
    IF ~sol_validate_address(from) \/ ~sol_validate_address(to) \/ amount < 0
      THEN NoTx
    ELSE [shape |-> "tx", from |-> from, to |-> to, lamports |-> amount]

\* TransactionManager.sign_transaction raises: bytes that are no transaction,
\* or a keypair that is not the transaction's fee payer
SolSignRaises(tx, key) == tx.shape # "tx" \/ tx.from # AddressOf(key)
SolSigned(tx, key) == [shape |-> "sig", tx |-> tx, by |-> key]

\* TransactionManager.sign_transaction(tx, key) when signed_tx holds old:
\* the value returned (NoSig for None) and signed_tx afterwards
tm_sign_transaction_early_store(tx, key, old) ==
    IF SolSignRaises(tx, key)
      THEN [ret |-> NoSig, signed_tx |-> SolSigned(tx, key)]
    ELSE [ret |-> SolSigned(tx, key), signed_tx |-> SolSigned(tx, key)]

tm_sign_transaction(tx, key, old) ==
    IF SolSignRaises(tx, key)
      THEN [ret |-> NoSig, signed_tx |-> old]
    ELSE [ret |-> SolSigned(tx, key), signed_tx |-> SolSigned(tx, key)]

SolUnsignedFile(tx) == [type |-> "unsigned_transaction", data |-> tx]
SolSignedFile(sig) == [type |-> "signed_transaction", data |-> sig]

\* selection.replace("unsigned_", "signed_")
SignedName(name) == <<"signed", name[2]>>
UnsignedName(t) == <<"unsigned", t>>

\* f without the file p: Path.unlink
RemoveFile(f, p) == [q \in DOMAIN f \ {p} |-> f[q]]

NoOp == [op |-> "none", outcome |-> "none", key_loaded |-> FALSE]
Ended(op, outcome, loaded) ==
    [op |-> op, outcome |-> outcome, key_loaded |-> loaded]

SolFields(nacl) ==
    /\ has_nacl = nacl
    /\ usb_mounted = FALSE
    /\ usb_mount_point = None
    /\ usb_keypair = None
    /\ usb_pubkey = None
    /\ usb_old = <<>>
    /\ inbox = <<>>
    /\ outbox = <<>>
    /\ backups = <<>>
    /\ wm_keypair = None
    /\ wm_origin = None
    /\ wm_dir = None
    /\ current_public_key = None
    /\ usb_is_cold_wallet = FALSE
    /\ current_usb_device = None
    /\ unsigned_tx = NoTx
    /\ signed_tx = NoSig
    /\ sol_now = 0
    /\ last = NoOp
    /\ sol_online = TRUE

\* the menu main_menu shows: wallet operations once a cold wallet is mounted
InWalletMenu == usb_is_cold_wallet /\ current_public_key # None

\* ------------------------------------------------------ wallet manager
\* where an I/O error strikes inside WalletManager.save_keypair
SolIoFaults == {"none", "keypair", "pubkey"}

\* WalletManager.save_keypair of key into <mount>/wallet: the files it
\* leaves and what it returns
sol_save_keypair(key, io) ==
    IF io = "keypair"
      THEN [ok |-> FALSE, keypair |-> usb_keypair, pubkey |-> usb_pubkey]
    ELSE IF io = "pubkey"
      THEN [ok |-> FALSE, keypair |-> key, pubkey |-> usb_pubkey]
    ELSE [ok |-> TRUE, keypair |-> key, pubkey |-> AddressOf(key)]

\* WalletManager.load_keypair(<mount>/wallet/keypair.json): the key now held
sol_load_keypair == usb_keypair

\* ------------------------------------------------- Solana CLI actions
SolCliUnchanged ==
    UNCHANGED <<current_public_key, usb_is_cold_wallet, current_usb_device>>
SolUsbWalletUnchanged == UNCHANGED <<usb_keypair, usb_pubkey, usb_old>>
SolMountUnchanged == UNCHANGED <<has_nacl, usb_mounted, usb_mount_point>>
SolTxFilesUnchanged == UNCHANGED <<inbox, outbox>>
SolKeyUnchanged == UNCHANGED <<wm_keypair, wm_origin>>

\* SolanaColdWalletCLI._mount_and_check_wallet, with _create_wallet_on_usb
\* when the USB holds no pubkey.txt and the user asks for a new wallet
mount_and_check_wallet ==
    /\ UNCHANGED <<evm_vars, unit_vars>>
    /\ ~InWalletMenu
    /\ \/ \* mount_device fails
          /\ last' = Ended("mount", "mount failed", FALSE)
          /\ UNCHANGED <<usb_mounted, usb_mount_point, wm_dir>>
          /\ SolCliUnchanged /\ SolUsbWalletUnchanged /\ SolKeyUnchanged
       \/ \* mounted, pubkey.txt found
          /\ usb_pubkey # None
          /\ usb_mounted' = TRUE
          /\ usb_mount_point' = MountPoint
          /\ usb_is_cold_wallet' = TRUE
          /\ current_public_key' = usb_pubkey
          /\ current_usb_device' = Device
          /\ wm_dir' = "wallet"
          /\ last' = Ended("mount", "wallet found", FALSE)
          /\ SolUsbWalletUnchanged /\ SolKeyUnchanged
       \/ \* mounted, no wallet, "No, go back"
          /\ usb_pubkey = None
          /\ usb_mounted' = TRUE
          /\ usb_mount_point' = MountPoint
          /\ last' = Ended("mount", "no wallet", FALSE)
          /\ UNCHANGED wm_dir
          /\ SolCliUnchanged /\ SolUsbWalletUnchanged /\ SolKeyUnchanged
       \/ \* mounted, no wallet, _create_wallet_on_usb
          /\ usb_pubkey = None
          /\ usb_mounted' = TRUE
          /\ usb_mount_point' = MountPoint
          /\ wm_dir' = "wallet"
          /\ \E key \in Keys :
               /\ wm_keypair' = key
               /\ wm_origin' = "generated"
               /\ \/ \* confirmation refused
                     /\ last' = Ended("mount", "create cancelled", FALSE)
                     /\ SolCliUnchanged /\ SolUsbWalletUnchanged
                  \/ \E io \in SolIoFaults :
                       LET r == sol_save_keypair(key, io) IN
                         /\ usb_keypair' = r.keypair
                         /\ usb_pubkey' = r.pubkey
                         /\ UNCHANGED usb_old
                         /\ IF r.ok
                              THEN /\ usb_is_cold_wallet' = TRUE
                                   /\ current_public_key' = AddressOf(key)
                                   /\ current_usb_device' = Device
                                   /\ last' = Ended("mount", "created", FALSE)
                              ELSE /\ last' = Ended("mount", "create failed",
                                                   FALSE)
                                   /\ SolCliUnchanged
    /\ SolTxFilesUnchanged
    /\ UNCHANGED <<has_nacl, backups, unsigned_tx, signed_tx, sol_now,
                   sol_online>>

\* SolanaColdWalletCLI._unmount_usb -> USBManager.unmount_device(device):
\* the target is the device path, never equal to mount_point
unmount_usb ==
    /\ UNCHANGED <<evm_vars, unit_vars>>
    /\ InWalletMenu
    /\ \E umount_ok \in BOOLEAN :
         /\ usb_mounted' = IF current_usb_device # None /\ umount_ok
                           THEN FALSE ELSE usb_mounted
         /\ usb_mount_point' =
              IF current_usb_device # None /\ umount_ok
                 /\ current_usb_device = usb_mount_point
                THEN None ELSE usb_mount_point
    /\ current_usb_device' = None
    /\ current_public_key' = None
    /\ usb_is_cold_wallet' = FALSE
    /\ last' = Ended("unmount", "done", FALSE)
    /\ SolUsbWalletUnchanged /\ SolTxFilesUnchanged /\ SolKeyUnchanged
    /\ UNCHANGED <<has_nacl, backups, wm_dir, unsigned_tx, signed_tx, sol_now,
                   sol_online>>

\* SolanaColdWalletCLI.create_unsigned_transaction
create_unsigned_transaction ==
    /\ UNCHANGED <<evm_vars, unit_vars>>
    /\ InWalletMenu
    /\ \/ \* invalid recipient or amount, not confirmed, no blockhash
          /\ last' = Ended("create", "rejected", FALSE)
          /\ UNCHANGED <<unsigned_tx, inbox>>
       \/ \E to \in SolRecipients, amount \in SolAmountInputs :
            /\ sol_validate_address(to) /\ amount > 0
            /\ LET tx == create_transfer_transaction(current_public_key,
                                                      to, amount) IN
                 /\ unsigned_tx' = tx
                 /\ inbox' = IF usb_mount_point # None
                             THEN WriteFile(inbox, UnsignedName(sol_now),
                                            SolUnsignedFile(tx))
                             ELSE inbox
                 /\ last' = Ended("create", "saved", FALSE)
    /\ SolCliUnchanged /\ SolUsbWalletUnchanged /\ SolMountUnchanged
    /\ SolKeyUnchanged
    /\ UNCHANGED <<outbox, backups, wm_dir, signed_tx, sol_now, sol_online>>

\* the user copies a file that holds no transaction into the inbox
ForeignName == <<"unsigned", 0 - 1>>
sol_receive_file ==
    /\ UNCHANGED <<evm_vars, unit_vars>>
    /\ usb_mounted
    /\ ForeignName \notin DOMAIN inbox
    /\ inbox' = WriteFile(inbox, ForeignName, SolUnsignedFile(MalformedTx))
    /\ SolCliUnchanged /\ SolUsbWalletUnchanged /\ SolMountUnchanged
    /\ SolKeyUnchanged
    /\ UNCHANGED <<outbox, backups, wm_dir, unsigned_tx, signed_tx, sol_now,
                   last, sol_online>>

sol_tick ==
    /\ UNCHANGED <<evm_vars, unit_vars>>
    /\ sol_now < MaxTime
    /\ sol_now' = sol_now + 1
    /\ SolCliUnchanged /\ SolUsbWalletUnchanged /\ SolMountUnchanged
    /\ SolKeyUnchanged /\ SolTxFilesUnchanged
    /\ UNCHANGED <<backups, wm_dir, unsigned_tx, signed_tx, last, sol_online>>

\* glob("unsigned_*.json") in the inbox, glob("signed_*.json") in the outbox
UnsignedFiles == {n \in DOMAIN inbox : n[1] = "unsigned"}
SignedFiles == {n \in DOMAIN outbox : n[1] = "signed"}

\* TransactionManager.load_unsigned_transaction(inbox / name)
sol_load_unsigned_transaction(name) ==
    IF name \notin DOMAIN inbox THEN NoTx
    ELSE IF inbox[name].type # "unsigned_transaction" THEN NoTx
    ELSE inbox[name].data

\* SolanaColdWalletCLI.sign_transaction, lines 705-718: tx_path.unlink() runs
\* inside "if save_signed_transaction(...)" and after the answer "Yes"
inbox_unlinked_whenever_asked(saved, delete_choice) == delete_choice
inbox_unlinked(saved, delete_choice) == saved /\ delete_choice

\* SolanaColdWalletCLI.sign_transaction, the whole handler
sign_transaction ==
    /\ UNCHANGED <<evm_vars, unit_vars>>
    /\ InWalletMenu
    /\ sol_online' = FALSE
    /\ IF usb_mount_point = None
         THEN /\ last' = Ended("sign", "no mount", FALSE)
              /\ UNCHANGED <<inbox, outbox, unsigned_tx, signed_tx>>
              /\ SolKeyUnchanged
       ELSE IF UnsignedFiles = {}
         THEN /\ last' = Ended("sign", "inbox empty", FALSE)
              /\ UNCHANGED <<inbox, outbox, unsigned_tx, signed_tx>>
              /\ SolKeyUnchanged
       ELSE
         \/ \* "No, I'll sign offline"
            /\ last' = Ended("sign", "declined", FALSE)
            /\ UNCHANGED <<inbox, outbox, unsigned_tx, signed_tx>>
            /\ SolKeyUnchanged
         \/ /\ usb_keypair = None
            /\ last' = Ended("sign", "no keypair file", FALSE)
            /\ UNCHANGED <<inbox, outbox, unsigned_tx, signed_tx>>
            /\ SolKeyUnchanged
         \/ \* load_keypair: the key stays in WalletManager.keypair
            /\ usb_keypair # None
            /\ wm_keypair' = sol_load_keypair
            /\ wm_origin' = "loaded"
            /\ \/ /\ last' = Ended("sign", "cancelled", TRUE)
                  /\ UNCHANGED <<inbox, outbox, unsigned_tx, signed_tx>>
               \/ \E selection \in UnsignedFiles :
                    LET tx == sol_load_unsigned_transaction(selection) IN
                    IF tx = NoTx
                      THEN /\ last' = Ended("sign", "load failed", TRUE)
                           /\ UNCHANGED <<inbox, outbox, unsigned_tx, signed_tx>>
                    ELSE LET r == tm_sign_transaction(tx, sol_load_keypair,
                                                      signed_tx) IN
                    IF r.ret = NoSig
                      THEN /\ unsigned_tx' = tx
                           /\ signed_tx' = r.signed_tx
                           /\ last' = Ended("sign", "sign failed", TRUE)
                           /\ UNCHANGED <<inbox, outbox>>
                    ELSE
                      /\ unsigned_tx' = tx
                      /\ signed_tx' = r.signed_tx
                      /\ \E saved \in BOOLEAN, delete_choice \in BOOLEAN :
                           \* saved: save_signed_transaction returned True
                           /\ outbox' = IF saved
                                          THEN WriteFile(outbox,
                                                 SignedName(selection),
                                                 SolSignedFile(r.ret))
                                        ELSE outbox
                           /\ inbox' = IF inbox_unlinked(saved, delete_choice)
                                         THEN RemoveFile(inbox, selection)
                                       ELSE inbox
                           /\ last' = IF saved
                                        THEN Ended("sign", "signed", TRUE)
                                      ELSE Ended("sign", "save failed", TRUE)
    /\ SolCliUnchanged /\ SolUsbWalletUnchanged /\ SolMountUnchanged
    /\ UNCHANGED <<backups, wm_dir, sol_now>>

\* SolanaColdWalletCLI.quick_send_transaction, the whole handler
quick_send_transaction ==
    /\ UNCHANGED <<evm_vars, unit_vars>>
    /\ InWalletMenu
    /\ sol_online' = FALSE
    /\ IF usb_mount_point = None
         THEN /\ last' = Ended("quick", "no mount", FALSE)
              /\ UNCHANGED <<unsigned_tx, signed_tx>> /\ SolKeyUnchanged
       ELSE IF usb_keypair = None
         THEN /\ last' = Ended("quick", "no keypair file", FALSE)
              /\ UNCHANGED <<unsigned_tx, signed_tx>> /\ SolKeyUnchanged
       ELSE
         /\ wm_keypair' = sol_load_keypair
         /\ wm_origin' = "loaded"
         /\ \/ \* invalid recipient or amount, not confirmed, no blockhash
               /\ last' = Ended("quick", "cancelled", TRUE)
               /\ UNCHANGED <<unsigned_tx, signed_tx>>
            \/ \E to \in SolRecipients, amount \in SolAmountInputs :
                 /\ sol_validate_address(to) /\ amount > 0
                 /\ LET tx == create_transfer_transaction(current_public_key,
                                                           to, amount) IN
                      /\ unsigned_tx' = tx
                      /\ LET r == tm_sign_transaction(tx, sol_load_keypair,
                                                      signed_tx) IN
                           /\ signed_tx' = r.signed_tx
                           /\ last' = Ended("quick",
                                  IF r.ret = NoSig THEN "sign failed"
                                  ELSE "signed", TRUE)
    /\ SolCliUnchanged /\ SolUsbWalletUnchanged /\ SolMountUnchanged
    /\ SolTxFilesUnchanged
    /\ UNCHANGED <<backups, wm_dir, sol_now>>

\* TransactionManager.load_signed_transaction(outbox / name)
sol_load_signed_transaction(name) ==
    IF name \notin DOMAIN outbox THEN NoSig
    ELSE IF outbox[name].type # "signed_transaction" THEN NoSig
    ELSE outbox[name].data

\* SolanaColdWalletCLI.broadcast_transaction
broadcast_transaction ==
    /\ UNCHANGED <<evm_vars, unit_vars>>
    /\ InWalletMenu
    /\ usb_mount_point # None
    /\ \E selection \in SignedFiles :
         LET tx_bytes == sol_load_signed_transaction(selection) IN
           /\ signed_tx' = IF tx_bytes # NoSig THEN tx_bytes ELSE signed_tx
           /\ last' = Ended("broadcast", "sent", FALSE)
    /\ SolCliUnchanged /\ SolUsbWalletUnchanged /\ SolMountUnchanged
    /\ SolTxFilesUnchanged /\ SolKeyUnchanged
    /\ UNCHANGED <<backups, wm_dir, unsigned_tx, sol_now, sol_online>>

\* ------------------------------------------------------ WalletBackup
\* passwords typed for an encrypted backup; "short" has fewer than 8 characters
BackupPasswords == {"longpass1", "short"}
LongEnough(password) == password # "short"
\* passwords typed when restoring
RestorePasswords == {"longpass1", "wrongpass", ""}

EncryptedName(t) == <<"encrypted_backup", t>>
PlaintextName(t) == <<"plaintext_backup", t>>

\* WalletBackup.export_encrypted: the encrypted record, or the base64 record
\* of _export_base64 when nacl is not installed
export_encrypted(key, password) ==
    IF ~has_nacl
      THEN [type |-> "base64_keypair", key |-> key, pw |-> ""]
    ELSE [type |-> "encrypted_keypair", key |-> key, pw |-> password]

\* WalletBackup.backup_to_file: the record written to the file
backup_to_file(key, password) ==
    IF password # "" THEN export_encrypted(key, password)
    ELSE [type |-> "plaintext_keypair", key |-> key, pw |-> ""]

\* WalletBackup.import_encrypted
import_encrypted_no_base64(data, password) ==
    IF ~has_nacl THEN None
    ELSE IF data.pw = password THEN data.key
    ELSE None

import_encrypted(data, password) ==
    IF data.type = "base64_keypair" THEN data.key
    ELSE IF ~has_nacl THEN None
    ELSE IF data.pw = password THEN data.key
    ELSE None

\* WalletBackup.restore_from_file on the record of a backup file
restore_from_file(data, password) ==
    IF data.type = "encrypted_keypair"
      THEN IF password = "" THEN None ELSE import_encrypted(data, password)
    ELSE IF data.type \in {"plaintext_keypair", "base64_keypair"}
      THEN data.key
    ELSE None

\* SolanaColdWalletCLI.backup_restore_wallet with _restore_wallet
backup_restore_wallet ==
    /\ UNCHANGED <<evm_vars, unit_vars>>
    /\ InWalletMenu
    /\ usb_mount_point # None
    /\ sol_online' = FALSE
    /\ LET \* the keypair loaded for the backup menu (lines 932-936)
           loaded == usb_keypair # None
           key == usb_keypair
       IN
       /\ IF loaded
            THEN wm_keypair' = sol_load_keypair /\ wm_origin' = "loaded"
            ELSE SolKeyUnchanged
       /\ \/ \* paper wallet, mnemonic, cancel: no file of the model changes
             /\ loaded
             /\ \E choice \in {"paper", "mnemonic", "cancel"} :
                  last' = Ended("backup", choice, loaded)
             /\ SolUsbWalletUnchanged
             /\ UNCHANGED <<backups, current_public_key>>
          \/ \* 2. Export Encrypted Backup
             /\ loaded
             /\ \E password \in BackupPasswords, confirm \in BackupPasswords,
                   io_ok \in BOOLEAN :
                  IF LongEnough(password) /\ password = confirm /\ io_ok
                    THEN /\ backups' = WriteFile(backups, EncryptedName(sol_now),
                                                 backup_to_file(key, password))
                         /\ last' = Ended("backup encrypted", "saved", loaded)
                    ELSE /\ last' = Ended("backup encrypted", "failed", loaded)
                         /\ UNCHANGED backups
             /\ SolUsbWalletUnchanged
             /\ UNCHANGED current_public_key
          \/ \* 3. Export Plaintext Backup
             /\ loaded
             /\ \E insecure \in BOOLEAN, io_ok \in BOOLEAN :
                  IF insecure /\ io_ok
                    THEN /\ backups' = WriteFile(backups, PlaintextName(sol_now),
                                                 backup_to_file(key, ""))
                         /\ last' = Ended("backup plaintext", "saved", loaded)
                    ELSE /\ last' = Ended("backup plaintext", "failed", loaded)
                         /\ UNCHANGED backups
             /\ SolUsbWalletUnchanged
             /\ UNCHANGED current_public_key
          \/ \* _restore_wallet: cancelled, or no backup file to choose
             /\ last' = Ended("restore", "cancelled", loaded)
             /\ SolUsbWalletUnchanged
             /\ UNCHANGED <<backups, current_public_key>>
          \/ \* _restore_wallet from a backup file
             /\ UNCHANGED backups
             /\ \E selection \in DOMAIN backups :
                  \E restore_password \in
                       IF backups[selection].type = "encrypted_keypair"
                       THEN RestorePasswords ELSE {""} :
                    LET restored == restore_from_file(backups[selection],
                                                      restore_password) IN
                      IF restored = None
                        THEN /\ last' = Ended("restore", "failed", loaded)
                             /\ SolUsbWalletUnchanged
                             /\ UNCHANGED current_public_key
                      ELSE
                        \/ \* "Replace existing wallet?" refused
                           /\ usb_keypair # None
                           /\ last' = Ended("restore", "kept", loaded)
                           /\ SolUsbWalletUnchanged
                           /\ UNCHANGED current_public_key
                        \/ \* keypair.json is renamed to keypair_old_<t>.json,
                           \* then the new keypair and pubkey are written
                           /\ usb_old' = IF usb_keypair # None
                                         THEN WriteFile(usb_old, sol_now,
                                                        usb_keypair)
                                         ELSE usb_old
                           /\ usb_keypair' = restored
                           /\ usb_pubkey' = AddressOf(restored)
                           /\ current_public_key' = AddressOf(restored)
                           /\ last' = Ended("restore", "restored", loaded)
    /\ SolMountUnchanged /\ SolTxFilesUnchanged
    /\ UNCHANGED <<wm_dir, usb_is_cold_wallet, current_usb_device,
                   unsigned_tx, signed_tx, sol_now>>

SolNext ==
    \/ mount_and_check_wallet
    \/ unmount_usb
    \/ create_unsigned_transaction
    \/ sol_receive_file
    \/ sol_tick
    \/ sign_transaction
    \/ quick_send_transaction
    \/ broadcast_transaction

\* the backup session: mount, back up, restore
BackupNext ==
    \/ mount_and_check_wallet
    \/ unmount_usb
    \/ sol_tick
    \/ backup_restore_wallet

\* -------------------------------------------- library calls, one at a time
\* amounts handed to the builders directly, in whole coins
UnitAmounts == {0 - 1, 0, 1, 2}
\* a transaction a manager may hold from an earlier call
EarlierEvmTx == create_eth_transfer("0xR1", 2, 0, 21, 1)
EarlierSolTx == create_transfer_transaction("a1", "r1", 2)

\* EVMTransactionManager.create_eth_transfer on a manager whose unsigned_tx is
\* old: the value returned and unsigned_tx afterwards
tm_create_eth_transfer(to, amount, nonce, max_fee, tip, old) ==
    LET tx == create_eth_transfer(to, amount, nonce, max_fee, tip) IN
      [ret |-> tx, unsigned_tx |-> tx]

\* TransactionManager.create_transfer_transaction on a manager whose
\* unsigned_tx is old
tm_create_transfer_transaction(from, to, amount, old) ==
    LET tx == create_transfer_transaction(from, to, amount) IN
      [ret |-> tx, unsigned_tx |-> IF tx = NoTx THEN old ELSE tx]

call_create_eth_transfer ==
    /\ UNCHANGED <<evm_vars, sol_vars>>
    /\ \E to \in Recipients, amount \in UnitAmounts,
          nonce \in NonceAnswers \ {RpcNone},
          base_fee \in BaseFeeAnswers \ {RpcNone},
          tip \in PriorityFeeAnswers \ {RpcNone},
          old \in {NoTx, EarlierEvmTx} :
         LET r == tm_create_eth_transfer(to, amount, nonce,
                                         max_fee_per_gas(base_fee, tip), tip, old) IN
           /\ u_call' = [fn |-> "create_eth_transfer", to |-> to,
                         amount |-> amount]
           /\ u_before' = [unsigned_tx |-> old]
           /\ u_after' = [unsigned_tx |-> r.unsigned_tx]
           /\ u_ret' = r.ret

call_create_transfer_transaction ==
    /\ UNCHANGED <<evm_vars, sol_vars>>
    /\ \E from \in {AddressOf(k) : k \in Keys}, to \in SolRecipients,
          amount \in UnitAmounts, old \in {NoTx, EarlierSolTx} :
         LET r == tm_create_transfer_transaction(from, to, amount, old) IN
           /\ u_call' = [fn |-> "create_transfer_transaction", to |-> to,
                         amount |-> amount]
           /\ u_before' = [unsigned_tx |-> old]
           /\ u_after' = [unsigned_tx |-> r.unsigned_tx]
           /\ u_ret' = r.ret

\* recipients handed to create_erc20_transfer, as text
GoodAddress == <<"0", "x">> \o [i \in 1..40 |-> IF i % 2 = 1 THEN "A" ELSE "b"]
ShortAddress == <<"0", "x", "1", "2">>
LongAddress == <<"0", "x">> \o [i \in 1..42 |-> "c"]
NoPrefixAddress == [i \in 1..40 |-> IF i % 2 = 1 THEN "d" ELSE "9"]
NonHexAddress == <<"0", "x", "Z", "Z">>
Erc20Recipients ==
    {GoodAddress, ShortAddress, LongAddress, NoPrefixAddress, NonHexAddress}
Erc20Amounts == {0 - 1, 0, 1, 255, 4096}
TokenAddress == "0xT1"
TransferSelector == <<"a", "9", "0", "5", "9", "c", "b", "b">>

\* gas_limit default of create_erc20_transfer
Erc20GasLimit == 65000

\* EVMTransactionManager.create_erc20_transfer: the EIP-1559 dict, or NoTx
\* when bytes.fromhex raises
create_erc20_transfer(token, to, amount_raw, nonce, max_fee, tip) ==
    LET padded_to == zfill(lower(DropChars(to, 2)), 64)
        padded_amount == zfill(DropChars(hex(amount_raw), 2), 64)
        text == TransferSelector \o padded_to \o padded_amount IN
      IF FromHexRaises(text) THEN NoTx
      ELSE [shape |-> "tx", type |-> 2, chainId |-> BASE_CHAIN_ID,
            to |-> token, value |-> 0, gas |-> Erc20GasLimit, nonce |-> nonce,
            maxFeePerGas |-> max_fee, maxPriorityFeePerGas |-> tip,
            data |-> fromhex(text)]

tm_create_erc20_transfer(token, to, amount_raw, nonce, max_fee, tip, old) ==
    LET tx == create_erc20_transfer(token, to, amount_raw, nonce, max_fee,
                                    tip) IN
      [ret |-> tx, unsigned_tx |-> IF tx = NoTx THEN old ELSE tx]

call_create_erc20_transfer ==
    /\ UNCHANGED <<evm_vars, sol_vars>>
    /\ \E to \in Erc20Recipients, amount \in Erc20Amounts,
          old \in {NoTx, EarlierEvmTx} :
         LET r == tm_create_erc20_transfer(TokenAddress, to, amount, 0, 21, 1,
                                           old) IN
           /\ u_call' = [fn |-> "create_erc20_transfer", to |-> to,
                         amount |-> amount, token |-> TokenAddress]
           /\ u_before' = [unsigned_tx |-> old]
           /\ u_after' = [unsigned_tx |-> r.unsigned_tx]
           /\ u_ret' = r.ret

\* ------------------------------------------------------------ QR transfer
\* the size check of display_transaction_qr
QrTextLimit == 2000
\* lengths of the compact JSON of the envelopes handed in
JsonLengths == {100, QrTextLimit - 1, QrTextLimit, QrTextLimit + 1, 2600}
\* len(base64.b64encode(text)) for a text of n characters
Base64Length(n) == 4 * ((n + 2) \div 3)

\* QRTransfer.generate_ascii_qr: a picture, or None (library missing, or
\* the library raised)
generate_ascii_qr(qr_available, library_ok) == qr_available /\ library_ok

\* QRTransfer.display_transaction_qr on an envelope whose compact JSON has
\* json_len characters: what it gave to generate_ascii_qr and what it showed
display_transaction_qr(json_len, qr_available, library_ok) ==
    LET too_large == json_len > QrTextLimit
        data_len == IF too_large THEN Base64Length(json_len) ELSE json_len
        ascii_qr == generate_ascii_qr(qr_available, library_ok) IN
      [warned |-> IF too_large THEN "too large, using base64" ELSE "none",
       encoding |-> IF too_large THEN "base64" ELSE "json",
       generator_called |-> TRUE,
       generator_input_len |-> data_len,
       shown |-> IF ascii_qr THEN "qr" ELSE "text to copy"]

call_display_transaction_qr ==
    /\ UNCHANGED <<evm_vars, sol_vars>>
    /\ \E json_len \in JsonLengths, qr_available \in BOOLEAN,
          library_ok \in BOOLEAN :
         /\ u_call' = [fn |-> "display_transaction_qr", json_len |-> json_len,
                       qr_available |-> qr_available]
         /\ u_before' = NoCall
         /\ u_after' = NoCall
         /\ u_ret' = display_transaction_qr(json_len, qr_available,
                                            library_ok)

\* --- serialize / deserialize, save / load
\* the transactions the two EVM builders return
BuildableEvmTxs ==
    {create_eth_transfer(to, amount, nonce, 21, 1) :
        to \in Recipients, amount \in UnitAmounts,
        nonce \in NonceAnswers \ {RpcNone}}
    \cup ({create_erc20_transfer(TokenAddress, to, amount, 0, 21, 1) :
              to \in Erc20Recipients, amount \in Erc20Amounts} \ {NoTx})

\* deserialize_unsigned_tx(serialize_unsigned_tx(tx))
call_serialize_deserialize ==
    /\ UNCHANGED <<evm_vars, sol_vars>>
    /\ \E tx \in BuildableEvmTxs :
         /\ u_call' = [fn |-> "serialize_deserialize", tx |-> tx]
         /\ u_before' = NoCall
         /\ u_after' = NoCall
         /\ u_ret' = deserialize_unsigned_tx(serialize_unsigned_tx(tx))

\* save_unsigned_transaction(tx, path) then load_unsigned_transaction(path)
\* on a manager whose unsigned_tx is old
call_save_load ==
    /\ UNCHANGED <<evm_vars, sol_vars>>
    /\ \E tx \in BuildableEvmTxs, old \in {NoTx, EarlierEvmTx} :
         LET loaded == unsigned_file_tx(UnsignedFile(tx)) IN
           /\ u_call' = [fn |-> "save_load", tx |-> tx]
           /\ u_before' = [unsigned_tx |-> old]
           /\ u_after' = [unsigned_tx |-> loaded]
           /\ u_ret' = loaded

\* --- the decoders and the type discriminator
\* what a file or a pasted text holds: a JSON object (body: its type and
\* data), JSON that is no object, base64 of either, or no JSON at all
TxFileBodies ==
    {SolUnsignedFile(EarlierSolTx),
     SolSignedFile(SolSigned(EarlierSolTx, "k1")),
     UnsignedFile(EarlierEvmTx),
     SignedFile(RawSigned(EarlierEvmTx, "k1")),
     [type |-> "other", data |-> NoTx],
     [type |-> None, data |-> NoTx]}
NoBody == [type |-> None, data |-> NoTx]
InputDocs ==
    {[json |-> kind, body |-> body] :
        kind \in {"object", "b64object"}, body \in TxFileBodies}
    \cup {[json |-> kind, body |-> NoBody] :
        kind \in {"array", "number", "null", "b64array", "invalid"}}

\* json.load of a file: the except Exception of a loader catches the
\* decode error of text that is no JSON (base64 text included) and the
\* AttributeError of .get on JSON that is no object
file_loader(doc, wanted, decoded, old) ==
    IF doc.json # "object" THEN [ret |-> NoTx, stored |-> old, raised |-> FALSE]
    ELSE IF doc.body.type # wanted
      THEN [ret |-> NoTx, stored |-> old, raised |-> FALSE]
    ELSE [ret |-> decoded, stored |-> decoded, raised |-> FALSE]

\* TransactionManager.load_unsigned_transaction / load_signed_transaction
sol_unit_load_unsigned(doc, old) ==
    file_loader(doc, "unsigned_transaction", doc.body.data, old)
sol_unit_load_signed(doc, old) ==
    file_loader(doc, "signed_transaction", doc.body.data, old)
\* EVMTransactionManager.load_unsigned_transaction / load_signed_transaction
evm_unit_load_unsigned(doc, old) ==
    file_loader(doc, "unsigned_evm_transaction",
                IF doc.json = "object" THEN unsigned_file_tx(doc.body)
                ELSE NoTx, old)
evm_unit_load_signed(doc, old) ==
    file_loader(doc, "signed_evm_transaction", doc.body.data, old)

\* QRTransfer.parse_unsigned_tx_input: only json.JSONDecodeError is caught
\* around the first json.loads, so .get on JSON that is no object raises
\* AttributeError out of the function; the base64 retry swallows everything
parse_unsigned_tx_input(doc, old) ==
    IF doc.json \in {"array", "number", "null"}
      THEN [ret |-> NoTx, stored |-> old, raised |-> TRUE]
    ELSE IF doc.json \in {"object", "b64object"}
            /\ doc.body.type = "unsigned_transaction"
      THEN [ret |-> doc.body, stored |-> old, raised |-> FALSE]
    ELSE [ret |-> NoTx, stored |-> old, raised |-> FALSE]

Decoders ==
    {"load_unsigned_transaction", "load_signed_transaction",
     "evm_load_unsigned_transaction", "evm_load_signed_transaction",
     "parse_unsigned_tx_input"}
\* the type a decoder takes
WantedType(decoder) ==
    CASE decoder = "load_unsigned_transaction" -> "unsigned_transaction"
      [] decoder = "load_signed_transaction" -> "signed_transaction"
      [] decoder = "evm_load_unsigned_transaction" -> "unsigned_evm_transaction"
      [] decoder = "evm_load_signed_transaction" -> "signed_evm_transaction"
      [] decoder = "parse_unsigned_tx_input" -> "unsigned_transaction"
Decode(decoder, doc, old) ==
    CASE decoder = "load_unsigned_transaction" -> sol_unit_load_unsigned(doc, old)
      [] decoder = "load_signed_transaction" -> sol_unit_load_signed(doc, old)
      [] decoder = "evm_load_unsigned_transaction" ->
            evm_unit_load_unsigned(doc, old)
      [] decoder = "evm_load_signed_transaction" -> evm_unit_load_signed(doc, old)
      [] decoder = "parse_unsigned_tx_input" -> parse_unsigned_tx_input(doc, old)

\* one decoder applied to one input, on a manager whose unsigned_tx or
\* signed_tx holds old
call_decoder ==
    /\ UNCHANGED <<evm_vars, sol_vars>>
    /\ \E decoder \in Decoders, doc \in InputDocs,
          old \in {NoTx, EarlierEvmTx} :
         LET r == Decode(decoder, doc, old) IN
           /\ u_call' = [fn |-> "decode", decoder |-> decoder, doc |-> doc]
           /\ u_before' = [stored |-> old]
           /\ u_after' = [stored |-> r.stored]
           /\ u_ret' = [ret |-> r.ret, raised |-> r.raised]

\* --- the private-key file on disk: mode and content
\* a path with no file, and the files a save may find there
NoFile == [present |-> FALSE, mode |-> None, content |-> None]
PriorFiles ==
    {NoFile} \cup {[present |-> TRUE, mode |-> m, content |-> "old"] :
                     m \in {"0600", "0644"}}
\* the process umask; open(path, 'w') creates a file with 0666 & ~umask
Umasks == {"022", "077"}
NewFileMode(umask) == IF umask = "077" THEN "0600" ELSE "0644"
\* open(path, 'w'): creates or truncates; an existing file keeps its mode
open_w(prior, umask) ==
    [present |-> TRUE,
     mode |-> IF prior.present THEN prior.mode ELSE NewFileMode(umask),
     content |-> "empty"]
\* where a save stops: nowhere, at open, inside json.dump, at the write of
\* the second (public) file, at os.chmod
FailPoints == {"none", "open", "dump", "second file", "chmod"}

\* open, json.dump, write the public file, os.chmod(path, 0o600): the key
\* file left behind and the value returned
\* (WalletManager.save_keypair and EVMWalletManager.save_keypair)
write_key_file(prior, umask, fail) ==
    IF fail = "open" THEN [file |-> prior, ret |-> FALSE]
    ELSE IF fail = "dump"
      THEN [file |-> [open_w(prior, umask) EXCEPT !.content = "partial"],
            ret |-> FALSE]
    ELSE IF fail \in {"second file", "chmod"}
      THEN [file |-> [open_w(prior, umask) EXCEPT !.content = "new"],
            ret |-> FALSE]
    ELSE [file |-> [present |-> TRUE, mode |-> "0600", content |-> "new"],
          ret |-> TRUE]
wallet_save_keypair_file(prior, umask, fail) ==
    write_key_file(prior, umask, fail)
evm_save_keypair_file(prior, umask, fail) ==
    write_key_file(prior, umask, fail)

\* WalletBackup.backup_to_file: open, json.dump, os.chmod; no second file
backup_to_file_file(prior, umask, fail) ==
    write_key_file(prior, umask, IF fail = "second file" THEN "none" ELSE fail)

\* SolanaColdWalletCLI._restore_wallet: an existing keypair.json is renamed
\* away first, then open, json.dump, write pubkey.txt; there is no chmod
restore_wallet_file(prior, umask, fail) ==
    IF fail = "open" THEN [file |-> NoFile, ret |-> FALSE]
    ELSE IF fail = "dump"
      THEN [file |-> [open_w(NoFile, umask) EXCEPT !.content = "partial"],
            ret |-> FALSE]
    ELSE [file |-> [open_w(NoFile, umask) EXCEPT !.content = "new"],
          ret |-> fail \notin {"second file"}]

Savers == {"WalletManager.save_keypair", "EVMWalletManager.save_keypair",
           "WalletBackup.backup_to_file", "_restore_wallet"}
Save(saver, prior, umask, fail) ==
    CASE saver = "WalletManager.save_keypair" ->
            wallet_save_keypair_file(prior, umask, fail)
      [] saver = "EVMWalletManager.save_keypair" ->
            evm_save_keypair_file(prior, umask, fail)
      [] saver = "WalletBackup.backup_to_file" ->
            backup_to_file_file(prior, umask, fail)
      [] saver = "_restore_wallet" -> restore_wallet_file(prior, umask, fail)

\* one save of a key file, stopped at fail
call_save ==
    /\ UNCHANGED <<evm_vars, sol_vars>>
    /\ \E saver \in Savers, prior \in PriorFiles, umask \in Umasks,
          fail \in FailPoints :
         LET r == Save(saver, prior, umask, fail) IN
           /\ u_call' = [fn |-> "save", saver |-> saver, fail |-> fail,
                         umask |-> umask]
           /\ u_before' = [file |-> prior]
           /\ u_after' = [file |-> r.file]
           /\ u_ret' = [ret |-> r.ret]

\* --- the container file as load_encrypted_container reads it
\* the version _normalize_container_format gives a container that has none
SupportedVersion == 1
\* json.load of the wallet file: a Rust container (ciphertext, nonce, salt
\* as lists or as base64 text, with or without a version), an eth-account
\* keystore (crypto), another object, or an empty one
ContainerDatas ==
    {[fmt |-> "rust", has_version |-> hv, version |-> IF hv THEN v ELSE 0,
      encoding |-> enc, key |-> "k1"] :
        hv \in BOOLEAN, v \in {1, 2}, enc \in {"list", "base64"}}
    \cup {[fmt |-> f, has_version |-> FALSE, version |-> 0,
            encoding |-> "base64", key |-> "k1"] :
              f \in {"keystore", "unknown", "empty"}}

\* EVMWalletManager._normalize_container_format
normalize_container_format(container) ==
    [container EXCEPT
        !.has_version = TRUE,
        !.version = IF container.has_version THEN container.version
                    ELSE SupportedVersion,
        !.encoding = "base64"]

\* EVMWalletManager.load_encrypted_container on the data of the file, with
\* encrypted_container holding old: the value returned (NoContainer for
\* None) and encrypted_container afterwards
load_container_data(data, old) ==
    IF data.fmt = "empty" THEN [ret |-> NoContainer, stored |-> old]
    ELSE IF data.fmt = "rust"
      THEN [ret |-> normalize_container_format(data),
            stored |-> normalize_container_format(data)]
    ELSE IF data.fmt = "keystore" THEN [ret |-> data, stored |-> data]
    ELSE [ret |-> NoContainer, stored |-> old]

call_load_encrypted_container ==
    /\ UNCHANGED <<evm_vars, sol_vars>>
    /\ \E data \in ContainerDatas,
          old \in {NoContainer, MakeContainer(TRUE, "k2", "p1")} :
         LET r == load_container_data(data, old) IN
           /\ u_call' = [fn |-> "load_encrypted_container", data |-> data]
           /\ u_before' = [encrypted_container |-> old]
           /\ u_after' = [encrypted_container |-> r.stored]
           /\ u_ret' = [ret |-> r.ret]

\* ------------------------------------------------------ address validation
\* str.strip(): the white space Python removes at both ends
IsSpace(c) == c \in {" ", "\t", "\n"}
RECURSIVE lstrip(_)
lstrip(str) ==
    IF Len(str) > 0 /\ IsSpace(str[1]) THEN lstrip(DropChars(str, 1)) ELSE str
RECURSIVE rstrip(_)
rstrip(str) ==
    IF Len(str) > 0 /\ IsSpace(str[Len(str)])
      THEN rstrip(SubSeq(str, 1, Len(str) - 1))
    ELSE str
strip(str) == lstrip(rstrip(str))

\* the digit part of an integer literal: hexadecimal digits, each of which
\* may follow one underscore; underscore_allowed says whether the first
\* digit may follow an underscore too (it may after 0x)
RECURSIVE HexLiteralDigits(_, _)
HexLiteralDigits(str, underscore_allowed) ==
    IF Len(str) = 0 THEN FALSE
    ELSE IF str[1] = "_"
      THEN /\ underscore_allowed
           /\ Len(str) >= 2 /\ IsHexChar(str[2])
           /\ (Len(str) = 2 \/ HexLiteralDigits(DropChars(str, 2), TRUE))
    ELSE /\ IsHexChar(str[1])
         /\ (Len(str) = 1 \/ HexLiteralDigits(DropChars(str, 1), TRUE))

\* int(text, 16) raises ValueError: the text is stripped, then an optional
\* sign, an optional 0x or 0X, and the digits
Int16Raises(text) ==
    LET s == strip(text)
        unsigned == IF Len(s) > 0 /\ s[1] \in {"+", "-"}
                      THEN DropChars(s, 1) ELSE s
        prefixed == Len(unsigned) >= 2 /\ unsigned[1] = "0"
                    /\ unsigned[2] \in {"x", "X"}
    IN  IF prefixed /\ HexLiteralDigits(DropChars(unsigned, 2), TRUE)
          THEN FALSE
        ELSE ~HexLiteralDigits(unsigned, FALSE)

\* EVMWalletManager.validate_address on the text of an address
validate_address_text(address) ==
    IF Len(address) = 0 \/ ~StartsWith0x(address) THEN FALSE
    ELSE IF Len(address) # 42 THEN FALSE
    ELSE ~Int16Raises(address)

\* addresses handed to validate_address; the first nine and
\* LeadingSpaceAddress have 42 characters
\* UnderscoreAddress ends in an underscore
UnderscoreAddress ==
    <<"0", "x">> \o [i \in 1..40 |-> IF i % 2 = 1 THEN "1" ELSE "_"]
UnderscoreInsideAddress ==
    <<"0", "x">> \o [i \in 1..40 |-> IF i = 20 THEN "_" ELSE "e"]
TrailingSpaceAddress ==
    <<"0", "x">> \o [i \in 1..40 |-> IF i = 40 THEN " " ELSE "7"]
TrailingNewlineAddress ==
    <<"0", "x">> \o [i \in 1..40 |-> IF i = 40 THEN "\n" ELSE "F"]
InnerSpaceAddress ==
    <<"0", "x">> \o [i \in 1..40 |-> IF i = 20 THEN " " ELSE "3"]
LetterAddress ==
    <<"0", "x">> \o [i \in 1..40 |-> IF i = 7 THEN "g" ELSE "a"]
UpperPrefixAddress == <<"0", "X">> \o [i \in 1..40 |-> "5"]
LeadingSpaceAddress == <<" ", "0", "x">> \o [i \in 1..39 |-> "5"]
ValidatedAddresses ==
    {GoodAddress, UnderscoreAddress, UnderscoreInsideAddress,
     TrailingSpaceAddress, TrailingNewlineAddress, InnerSpaceAddress,
     LetterAddress, UpperPrefixAddress, LeadingSpaceAddress,
     ShortAddress, LongAddress, NoPrefixAddress, <<>>}

call_validate_address ==
    /\ UNCHANGED <<evm_vars, sol_vars>>
    /\ \E address \in ValidatedAddresses :
         /\ u_call' = [fn |-> "validate_address", address |-> address]
         /\ u_before' = NoCall
         /\ u_after' = NoCall
         /\ u_ret' = [ret |-> validate_address_text(address)]

UnitNext ==
    \/ call_validate_address
    \/ call_load_encrypted_container
    \/ call_save
    \/ call_decoder
    \/ call_serialize_deserialize
    \/ call_save_load
    \/ call_display_transaction_qr
    \/ call_create_eth_transfer
    \/ call_create_transfer_transaction
    \/ call_create_erc20_transfer

\* ------------------------------- library calls that depend on what is installed
\* passwords handed to the backup functions directly
LibPasswords == {"", "longpass1", "wrongpass", "short"}

\* WalletBackup.backup_to_file(key, path, password) then
\* restore_from_file(path, restore_password), or export_encrypted then
\* import_encrypted on the dict
call_backup_restore ==
    /\ UNCHANGED <<evm_vars, sol_vars>>
    /\ \E key \in Keys, password \in LibPasswords,
          restore_password \in LibPasswords, via \in {"file", "dict"} :
         LET written == IF via = "file" THEN backup_to_file(key, password)
                        ELSE export_encrypted(key, password)
             restored == IF via = "file"
                           THEN restore_from_file(written, restore_password)
                         ELSE import_encrypted(written, restore_password) IN
           /\ u_call' = [fn |-> "backup_restore", via |-> via, key |-> key,
                         password |-> password,
                         restore_password |-> restore_password]
           /\ u_before' = [data |-> written]
           /\ u_after' = [data |-> written]
           /\ u_ret' = [ret |-> restored]

\* --- sign_transaction_secure: what the user sees when decryption fails
\* what happened to the container file: nothing, bytes of the ciphertext
\* changed, a member of the keystore made unreadable, the ciphertext /
\* crypto member lost
Damages == {"none", "ciphertext", "structure", "no crypto"}
\* the generic message of sign_transaction_secure, line 181
GenericFailure ==
    [text |-> "Decryption failed - wrong password or corrupted wallet",
     cause |-> ""]

\* EVMWalletManager.decrypt_private_key: the key (None on failure) and the
\* messages printed. rust_raises: the Rust signer reports a failed
\* decryption by raising (TRUE) or by returning no key (FALSE)
decrypt_private_key_outcome(rust, container, damage, password, rust_raises) ==
    IF damage = "no crypto" \/ (container.fmt = "rust" /\ ~rust)
         \/ container.fmt \notin {"rust", "keystore"}
      THEN [ret |-> None,
            messages |-> <<[text |-> "Unknown container format",
                            cause |-> ""]>>]
    ELSE IF damage = "structure"
      THEN [ret |-> None,
            messages |-> <<[text |-> "Decryption failed: ",
                            cause |-> "unreadable member"]>>]
    ELSE IF damage = "ciphertext" \/ container.pw # password
      THEN [ret |-> None,
            messages |->
               IF container.fmt = "rust" /\ ~rust_raises THEN <<>>
               ELSE <<[text |-> "Decryption failed: ",
                       cause |-> "authentication tag mismatch"]>>]
    ELSE [ret |-> decrypt_private_key(rust, container, password),
          messages |-> <<>>]

\* EVMTransactionManager.sign_transaction_secure up to line 182: the value
\* returned and the messages printed when decryption fails, the key when it
\* does not
sign_transaction_secure_outcome(rust, container, damage, password, rust_raises) ==
    LET d == decrypt_private_key_outcome(rust, container, damage, password,
                                         rust_raises) IN
      IF d.ret = None
        THEN [ret |-> NoSig, decrypted |-> FALSE,
              messages |-> d.messages \o <<GenericFailure>>]
      ELSE [ret |-> NoSig, decrypted |-> TRUE, messages |-> d.messages]

\* two runs on the same transaction and wallet: one with a wrong password
\* on the intact container, one with the right password on a damaged one
call_sign_transaction_secure_twice ==
    /\ UNCHANGED <<evm_vars, sol_vars>>
    /\ \E key \in Keys, password \in Passwords, wrong \in Passwords,
          made_with_rust \in BOOLEAN, damage \in Damages \ {"none"},
          rust_raises \in BOOLEAN :
         /\ wrong # password
         /\ LET container == MakeContainer(made_with_rust, key, password) IN
              /\ u_call' = [fn |-> "sign_transaction_secure twice",
                            container |-> container, damage |-> damage,
                            rust_raises |-> rust_raises]
              /\ u_before' = NoCall
              /\ u_after' = NoCall
              /\ u_ret' =
                   [wrong_password |->
                       sign_transaction_secure_outcome(rust_signer, container,
                           "none", wrong, rust_raises),
                    corrupted |->
                       sign_transaction_secure_outcome(rust_signer, container,
                           damage, password, rust_raises)]

LibNext ==
    \/ call_sign_transaction_secure_twice
    \/ call_backup_restore

\* ------------------------------------------------ waiting for a receipt
\* the largest max_retries tried; broadcast_signed_tx passes 30, for which
\* this stands
MaxRetries == 3
\* what the endpoint answers to eth_getTransactionReceipt: an error (or the
\* request raises), result null while the transaction is pending, a receipt
\* with status 0x1 or 0x0, a receipt whose status is no hexadecimal text
RpcAnswers == {"error", "pending", "confirmed", "reverted", "malformed"}
NoReceipt == [status |-> None]

\* BaseNetwork.get_transaction_receipt: the receipt, or NoReceipt for None
get_transaction_receipt(answer) ==
    IF answer \in {"error", "pending"} THEN NoReceipt
    ELSE IF answer = "confirmed" THEN [status |-> "0x1"]
    ELSE IF answer = "reverted" THEN [status |-> "0x0"]
    ELSE [status |-> "null"]

\* BaseNetwork.wait_for_receipt from query i on: the value returned, the
\* number of queries made, the messages printed; raised when
\* int(receipt.get("status", "0x0"), 16) raises out of the function
RECURSIVE wait_for_receipt_from(_, _, _)
wait_for_receipt_from(answers, i, max_retries) ==
    IF i > max_retries
      THEN [ret |-> NoReceipt, queries |-> max_retries, raised |-> FALSE,
            messages |-> <<"Transaction not confirmed within timeout">>]
    ELSE LET receipt == get_transaction_receipt(answers[i]) IN
      IF receipt = NoReceipt
        THEN wait_for_receipt_from(answers, i + 1, max_retries)
      ELSE IF receipt.status \notin {"0x0", "0x1"}
        THEN [ret |-> NoReceipt, queries |-> i, raised |-> TRUE,
              messages |-> <<>>]
      ELSE IF receipt.status = "0x1"
        THEN [ret |-> receipt, queries |-> i, raised |-> FALSE,
              messages |-> <<"Transaction confirmed!">>]
      ELSE [ret |-> receipt, queries |-> i, raised |-> FALSE,
            messages |-> <<"Transaction reverted!">>]

wait_for_receipt(answers, max_retries) ==
    wait_for_receipt_from(answers, 1, max_retries)

call_wait_for_receipt ==
    /\ UNCHANGED <<evm_vars, sol_vars>>
    /\ \E max_retries \in 0..MaxRetries,
          answers \in [1..MaxRetries -> RpcAnswers] :
         /\ u_call' = [fn |-> "wait_for_receipt", answers |-> answers,
                       max_retries |-> max_retries]
         /\ u_before' = NoCall
         /\ u_after' = NoCall
         /\ u_ret' = wait_for_receipt(answers, max_retries)

\* BaseCLI.broadcast_signed_tx from the loaded file on: the messages printed
\* about the transaction's fate (raised: wait_for_receipt raised through)
broadcast_report(loaded, confirm, sent, answers) ==
    IF ~loaded THEN [messages |-> <<>>, raised |-> FALSE]
    ELSE IF ~confirm THEN [messages |-> <<"Cancelled">>, raised |-> FALSE]
    ELSE IF ~sent THEN [messages |-> <<>>, raised |-> FALSE]
    ELSE LET w == wait_for_receipt(answers, MaxRetries) IN
      IF w.raised THEN [messages |-> w.messages, raised |-> TRUE]
      ELSE IF w.ret # NoReceipt
        THEN [messages |-> w.messages \o <<"Transaction confirmed!">>,
              raised |-> FALSE]
      ELSE [messages |-> w.messages \o <<"Check explorer for status">>,
            raised |-> FALSE]

call_broadcast_signed_tx ==
    /\ UNCHANGED <<evm_vars, sol_vars>>
    /\ \E loaded \in BOOLEAN, confirm \in BOOLEAN, sent \in BOOLEAN,
          answers \in [1..MaxRetries -> RpcAnswers] :
         /\ (~loaded \/ ~confirm \/ ~sent)
                => answers = [i \in 1..MaxRetries |-> "pending"]
         /\ u_call' = [fn |-> "broadcast_signed_tx", loaded |-> loaded,
                       confirm |-> confirm, sent |-> sent,
                       answers |-> answers]
         /\ u_before' = NoCall
         /\ u_after' = NoCall
         /\ u_ret' = broadcast_report(loaded, confirm, sent, answers)

NetNext ==
    \/ call_wait_for_receipt
    \/ call_broadcast_signed_tx

\* ------------------------------------------------------- specifications
EvmInit ==
    (\E rust \in BOOLEAN : EvmFields(rust)) /\ SolFields(TRUE) /\ UnitFields
SolInit ==
    (\E nacl \in BOOLEAN : SolFields(nacl)) /\ EvmFields(TRUE) /\ UnitFields

\* the Base CLI process
SpecEVM == EvmInit /\ [][EvmNext]_vars
\* the Solana CLI process
SpecSol == SolInit /\ [][SolNext]_vars

SpecBackup == SolInit /\ [][BackupNext]_vars

\* library functions called directly
UnitInit == EvmFields(TRUE) /\ SolFields(TRUE) /\ UnitFields
SpecUnit == UnitInit /\ [][UnitNext]_vars
SpecNet == UnitInit /\ [][NetNext]_vars
LibInit ==
    /\ \E rust \in BOOLEAN : EvmFields(rust)
    /\ \E nacl \in BOOLEAN : SolFields(nacl)
    /\ UnitFields
SpecLib == LibInit /\ [][LibNext]_vars

\* ================================================================ claims
InTrace(e) == \E i \in DOMAIN trace : trace[i] = e
\* every occurrence of b in the trace has an a before it
Precedes(a, b) ==
    \A i \in DOMAIN trace :
        trace[i] = b => \E j \in 1..(i - 1) : trace[j] = a
DecryptFailed == InTrace("Failed") /\ ~InTrace("KeyDecrypted")

\* C1: once decrypt_private_key has returned a key, sign_transaction_secure
\* does not return before the key-wipe step has run, whatever the path,
\* the one where Account.sign_transaction raises included.
C1_WipeOnEveryPath ==
    (pc \in {"Returned", "Done"} /\ InTrace("KeyDecrypted"))
        => InTrace("KeyWiped")

\* C2: after SolanaColdWalletCLI.sign_transaction or quick_send_transaction
\* has returned with the key loaded (signed, failed or cancelled), the
\* wallet manager holds no private key.
C2_KeyGoneAfterSigning ==
    (last.op \in {"sign", "quick"} /\ last.key_loaded) => wm_keypair = None

\* C3: a run of the EVM offline signing path visits ContainerLoaded,
\* PasswordEntered, KeyDecrypted, Signing, KeyWiped and then Signed or
\* Failed in this order: no decryption before a non-empty password, and
\* signed_tx_bytes set, the bytes returned and the file saved only after
\* the key was wiped.
C3_SigningStateOrder ==
    caller = "offline" =>
        /\ Precedes("ContainerLoaded", "PasswordEntered")
        /\ Precedes("PasswordEntered", "KeyDecrypted")
        /\ InTrace("KeyDecrypted") => l_password # ""
        /\ Precedes("KeyDecrypted", "Signing")
        /\ Precedes("KeyWiped", "signed_tx_bytes set")
        /\ Precedes("KeyWiped", "Signed")
        /\ Precedes("KeyWiped", "file saved")
        /\ (InTrace("Failed") /\ InTrace("KeyDecrypted"))
               => Precedes("KeyWiped", "Failed")

\* C4: when decrypt_private_key fails inside sign_transaction_secure, the
\* call returns no signature, signed_tx_bytes keeps the value it had before
\* the call, and the caller writes no signed file and shows no signed QR.
C4_WrongPasswordNotApplied ==
    (pc \in {"Returned", "Done"} /\ DecryptFailed) =>
        /\ signed = NoSig
        /\ tm_signed_tx_bytes = pre.signed
        /\ evm_files = pre.files
        /\ ~InTrace("file saved")
        /\ ~InTrace("qr shown")
        /\ ~InTrace("broadcast")

\* a run of sign_transaction_offline ended by a wrong password while an
\* earlier signature and its file exist
C4_Witness ==
    /\ pc = "Done" /\ caller = "offline" /\ DecryptFailed
    /\ l_container # NoContainer /\ l_password # l_container.pw
    /\ pre.signed # NoSig
    /\ pre.files # <<>>

\* C5: when TransactionManager.sign_transaction fails during
\* SolanaColdWalletCLI.sign_transaction, nothing is written to the outbox,
\* the unsigned file stays in the inbox and TransactionManager.signed_tx is
\* not changed.
C5_FailedSignPersistsNothing ==
    [][(last'.outcome = "sign failed" /\ sign_transaction) =>
          /\ outbox' = outbox
          /\ inbox' = inbox
          /\ signed_tx' = signed_tx]_vars

\* a failed signing in a session that signed before: the earlier signature
\* and its outbox file are still there, and so is the unsigned file
C5_Witness ==
    /\ last = Ended("sign", "sign failed", TRUE)
    /\ signed_tx # NoSig
    /\ outbox # <<>>
    /\ inbox # <<>>
    /\ unsigned_tx # NoTx
    /\ SolSignRaises(unsigned_tx, wm_keypair)

\* C6: after load wallet (BaseCLI.load_wallet, _mount_and_check_wallet),
\* create unsigned transaction and broadcast operations only, no wallet
\* manager holds a private key.
C6_OnlineHoldsNoKey ==
    /\ evm_online => (w_account = None /\ private_key = None)
    /\ sol_online => wm_keypair = None

\* C7: no signature is produced with a key whose address differs from the
\* address recorded for the wallet (the container's address field,
\* evm_address.txt).
C7_SigningKeyMatchesAddress ==
    pc = "Signing" =>
        /\ AddressOf(private_key) = l_container.address
        /\ disk_address[w_dir] # None
               => AddressOf(private_key) = disk_address[w_dir]

\* C8: no wallet creation or save overwrites a container that already
\* exists at the target path.
C8_ContainerNeverOverwritten ==
    [][\A d \in Dirs :
          disk_container[d] # NoContainer
              => disk_container'[d] = disk_container[d]]_vars

\* C9: a backup made with a password that reports success holds an
\* encrypted key, whether the encryption primitive is available or not.
C9_PasswordBackupIsEncrypted ==
    (last = Ended("backup encrypted", "saved", TRUE)) =>
        /\ EncryptedName(sol_now) \in DOMAIN backups
        /\ backups[EncryptedName(sol_now)].type = "encrypted_keypair"

\* C10: a signed-transaction file that exists in the outbox is never
\* overwritten by a later signing.
C10_SignedFileWriteOnce ==
    [][\A p \in DOMAIN evm_files :
          evm_files[p].type = "signed_evm_transaction"
              => evm_files'[p] = evm_files[p]]_vars

\* C11: create_transfer_transaction and create_eth_transfer called with a
\* non-positive amount (0, -1) fail: they return no transaction and leave
\* the manager's unsigned_tx as it was.
C11_NonPositiveAmountRejected ==
    (u_call.fn \in {"create_eth_transfer", "create_transfer_transaction"}
       /\ u_call.amount <= 0)
        => (u_ret = NoTx /\ u_after = u_before)

\* a recipient that is 0x followed by 40 hexadecimal digits
WellFormedEvmAddress(str) ==
    /\ Len(str) = 42 /\ str[1] = "0" /\ str[2] = "x"
    /\ \A i \in 3..42 : IsHexChar(str[i])

\* C12: for a recipient that is no well-formed address of the chain,
\* create_transfer_transaction, create_eth_transfer and
\* create_erc20_transfer return no unsigned transaction.
C12_MalformedRecipientRejected ==
    /\ (u_call.fn = "create_transfer_transaction"
          /\ ~sol_validate_address(u_call.to)) => u_ret = NoTx
    /\ (u_call.fn = "create_eth_transfer" /\ ~validate_address(u_call.to))
          => u_ret = NoTx
    /\ (u_call.fn = "create_erc20_transfer"
          /\ ~WellFormedEvmAddress(u_call.to)) => u_ret = NoTx

\* the hexadecimal digits of a recipient, without the 0x prefix if it has one
AddressDigits(str) ==
    IF Len(str) >= 2 /\ str[1] = "0" /\ str[2] = "x" THEN DropChars(str, 2)
    ELSE str

\* C17: a transaction returned by create_erc20_transfer has 68 bytes of
\* data: the selector a9059cbb, the recipient left-padded with zeros to 32
\* bytes, the amount as a 32-byte big-endian integer; its to is the token
\* contract and its value is 0.
C17_Erc20DataLayout ==
    (u_call.fn = "create_erc20_transfer" /\ u_ret # NoTx) =>
        /\ Len(u_ret.data) = 68
        /\ SubSeq(u_ret.data, 1, 4) = <<169, 5, 156, 187>>
        /\ bytes_hex(SubSeq(u_ret.data, 5, 36))
               = zfill(lower(AddressDigits(u_call.to)), 64)
        /\ bytes_hex(SubSeq(u_ret.data, 37, 68))
               = zfill(HexDigitsOf(u_call.amount), 64)
        /\ u_ret.to = u_call.token
        /\ u_ret.value = 0

\* C13: an envelope whose compact JSON is longer than 2000 characters is
\* never turned into a QR code: display_transaction_qr reports that file
\* transfer is required and does not call the QR generator for it.
C13_LargeEnvelopeNotQrEncoded ==
    (u_call.fn = "display_transaction_qr" /\ u_call.json_len > 2000) =>
        /\ ~u_ret.generator_called
        /\ u_ret.shown # "qr"
        /\ u_ret.warned = "file transfer required"

\* C14: deserialize_unsigned_tx(serialize_unsigned_tx(tx)) equals tx field
\* for field for every transaction create_eth_transfer or
\* create_erc20_transfer can build (integers stay integers, data the same
\* bytes, the empty data included), and so does the transaction that
\* load_unsigned_transaction reads from the file save_unsigned_transaction
\* wrote.
C14_RoundTripKeepsTx ==
    u_call.fn \in {"serialize_deserialize", "save_load"} =>
        /\ u_ret = u_call.tx
        /\ DOMAIN u_ret = DOMAIN u_call.tx
        /\ \A k \in DOMAIN u_call.tx : u_ret[k] = u_call.tx[k]
        /\ u_call.fn = "save_load" => u_after.unsigned_tx = u_call.tx

\* an ERC-20 transfer with its 68 bytes of data came back from a file
C14_Witness ==
    /\ u_call.fn = "save_load"
    /\ Len(u_call.tx.data) = 68
    /\ u_ret.data = u_call.tx.data
    /\ u_ret.maxFeePerGas = 21

\* C16: the transaction BaseCLI.create_unsigned_tx and quick_send build has
\* maxFeePerGas = 2 * base_fee + priority_fee and maxPriorityFeePerGas =
\* priority_fee (21 and 1 for the answers 10 and 1), and none is built when
\* the nonce, the base fee or the priority fee could not be fetched.
C16_MaxFeeFromRpcAnswers ==
    [][tm_unsigned_tx' # tm_unsigned_tx /\ (create_unsigned_tx \/ quick_send)
        => \E nonce \in NonceAnswers \ {RpcNone},
              base_fee \in BaseFeeAnswers \ {RpcNone},
              priority_fee \in PriorityFeeAnswers \ {RpcNone} :
             /\ tm_unsigned_tx'.nonce = nonce
             /\ tm_unsigned_tx'.maxFeePerGas = 2 * base_fee + priority_fee
             /\ tm_unsigned_tx'.maxPriorityFeePerGas = priority_fee]_vars

\* create_unsigned_tx has written its file for the answers 10 and 1
C16_Witness ==
    /\ tm_unsigned_tx.shape = "tx"
    /\ tm_unsigned_tx.maxFeePerGas = 21
    /\ tm_unsigned_tx.maxPriorityFeePerGas = 1
    /\ \E path \in DOMAIN evm_files :
         unsigned_file_tx(evm_files[path]) = tm_unsigned_tx

\* the input is a JSON object as the decoder reads it (the pasted text may
\* be base64 of the JSON)
ReadsAsObject(decoder, doc) ==
    \/ doc.json = "object"
    \/ decoder = "parse_unsigned_tx_input" /\ doc.json = "b64object"

\* C15: every decoder honours the type discriminator: for an input of
\* another type, and for an input that is no JSON object, it returns None
\* without raising and leaves the manager's unsigned_tx / signed_tx as it
\* was.
C15_DecodersHonourType ==
    (/\ u_call.fn = "decode"
     /\ \/ ~ReadsAsObject(u_call.decoder, u_call.doc)
        \/ u_call.doc.body.type # WantedType(u_call.decoder))
    => /\ ~u_ret.raised
       /\ u_ret.ret = NoTx
       /\ u_after.stored = u_before.stored

\* C18: every save that leaves a private-key file (WalletManager.save_keypair,
\* EVMWalletManager.save_keypair, WalletBackup.backup_to_file,
\* _restore_wallet) leaves it with mode 0600, also when the save fails after
\* key bytes were written.
C18_KeyFileOwnerOnly ==
    (/\ u_call.fn = "save"
     /\ u_after.file.present
     /\ u_after.file.content \in {"partial", "new"})
    => u_after.file.mode = "0600"

\* C19: saving a container is atomic with respect to interruption: after
\* WalletManager.save_keypair or EVMWalletManager.save_keypair, wherever it
\* stopped, the path holds what it held before or the complete new file.
C19_SaveIsAtomic ==
    (/\ u_call.fn = "save"
     /\ u_call.saver \in {"WalletManager.save_keypair",
                          "EVMWalletManager.save_keypair"})
    => \/ u_after.file = u_before.file
       \/ u_after.file.content = "new"

\* C20: EVMWalletManager.load_encrypted_container rejects a container whose
\* format version is newer than the supported one: it returns None and does
\* not store the container as the manager's encrypted_container.
C20_NewerVersionRejected ==
    (/\ u_call.fn = "load_encrypted_container"
     /\ u_call.data.fmt = "rust"
     /\ u_call.data.has_version
     /\ u_call.data.version > SupportedVersion)
    => /\ u_ret.ret = NoContainer
       /\ u_after.encrypted_container = u_before.encrypted_container

C22_WrongPasswordRejected ==
    (/\ u_call.fn = "backup_restore"
     /\ u_call.password # ""
     /\ u_call.restore_password # u_call.password)
    => u_ret.ret = None

\* C23: a decryption failure does not reveal its cause: sign_transaction_secure
\* run on the same transaction with a wrong password and run with a corrupted
\* container return the same value and print the same messages.
C23_FailureCauseHidden ==
    u_call.fn = "sign_transaction_secure twice"
        => /\ u_ret.wrong_password.ret = u_ret.corrupted.ret
           /\ u_ret.wrong_password.messages = u_ret.corrupted.messages

\* the first query, among the first n, that yields a receipt; 0 when none
FirstReceipt(answers, n) ==
    LET hits == {i \in 1..n : answers[i] \notin {"error", "pending"}} IN
      IF hits = {} THEN 0 ELSE CHOOSE i \in hits : \A j \in hits : i <= j

\* C24: network polling is bounded: wait_for_receipt makes at most
\* max_retries receipt queries, returns the receipt at the first query that
\* yields one and returns None after max_retries queries without a receipt,
\* whatever the endpoint answers, errors on every query included.
C24_PollingBounded ==
    u_call.fn = "wait_for_receipt" =>
        LET first == FirstReceipt(u_call.answers, u_call.max_retries) IN
          /\ u_ret.queries <= u_call.max_retries
          /\ ~u_ret.raised
          /\ first = 0 => u_ret.ret = NoReceipt
                           /\ u_ret.queries = u_call.max_retries
          /\ first # 0 =>
                /\ u_ret.ret = get_transaction_receipt(u_call.answers[first])
                /\ u_ret.queries = first

\* C25: broadcast_signed_tx prints 'Transaction confirmed!' only for a
\* transaction whose receipt has status 1: never for a receipt that shows a
\* revert, never when no receipt arrives within the retries.
C25_ConfirmedOnlyOnStatusOne ==
    (/\ u_call.fn = "broadcast_signed_tx"
     /\ \E i \in DOMAIN u_ret.messages :
          u_ret.messages[i] = "Transaction confirmed!")
    => LET first == FirstReceipt(u_call.answers, MaxRetries) IN
         first # 0 /\ u_call.answers[first] = "confirmed"

\* C26: a failed BaseCLI.load_wallet leaves everything as it was: when the
\* new directory holds no loadable container, address, wallet_path and the
\* wallet manager's keypair_path, address_path and encrypted_container are
\* unchanged, so that signing goes on with the wallet shown as loaded.
C26_FailedLoadChangesNothing ==
    [][(cli_address' = cli_address /\ load_wallet
        /\ load_encrypted_container(w_dir') = NoContainer)
       => /\ cli_wallet_path' = cli_wallet_path
          /\ w_dir' = w_dir
          /\ w_container' = w_container]_vars

\* C27: EVMWalletManager holds a plaintext key only between generate_keypair
\* and the end of save_keypair: after BaseCLI.create_wallet, whether
\* save_keypair succeeded or failed (password mismatch, empty password, I/O
\* error), the wallet manager's account is empty.
C27_NoKeyAfterCreateWallet ==
    [][create_wallet => w_account' = None]_vars

\* C28: USBManager.mount_point tracks the mounted state after any sequence
\* of mount and unmount operations: it holds the path while the USB is
\* mounted and is cleared by a successful unmount through _unmount_usb, so
\* that sign, broadcast and backup see a mount exactly when one is active.
C28_MountPointTracksMount ==
    (usb_mount_point # None) <=> usb_mounted

C30_OnlyFortyHexDigits ==
    u_call.fn = "validate_address"
        => (u_ret.ret <=> WellFormedEvmAddress(u_call.address))
====
